---- MODULE Spec2Model ----
(***************************************************************************)
(* A model of go-sources-and-licenses: the go.mod parser (pkg.ParseMod),   *)
(* the go.sum parser (pkg.ParseSum), the dependency walker                 *)
(* (cmd.writeModuleFromSource, cmd.writeModuleFromBinary), the command     *)
(* that drives them (the RunE of cmd.sources), the fetcher (pkg.GetModule) *)
(* and the license scanner (pkg.WriteToZip, pkg.FindLicenses).             *)
(*                                                                         *)
(* Go strings are TLA+ strings; a file is the sequence of its lines.       *)
(***************************************************************************)
EXTENDS Integers, Sequences, FiniteSets, TLC

VARIABLES
    parser,   \* pkg.ParseMod scanning one input: its locals and its result
    sum,      \* pkg.ParseSum scanning one input
    walk,     \* one call of cmd.writeModuleFromSource: arguments and results
    run,      \* one execution of the sources command (RunE)
    call      \* one call of a library function on its own: arguments and result

vars == <<parser, sum, walk, run, call>>

(***************************************************************************)
(* Bounds of the model.                                                    *)
(***************************************************************************)
MaxLines == 3          \* lines of a go.mod given to ParseMod on its own
MaxSumLines == 2       \* lines of a go.sum given to ParseSum
MaxManifestLines == 3  \* lines of a go.mod the walker reads
MaxFound == 2          \* go.mod files or binaries found under the target by --find
MaxFiles == 2          \* entries of a tree given to WriteToZip on its own
MaxDeps == 2           \* entries of the dependency list of a binary read on its own
MaxRoundLines == 3     \* lines of a go.mod that is parsed, written back and parsed again
MaxSettings == 2       \* build settings of a binary given to parseVersionFromBuildFlags
MaxVersions == 2       \* versions the list endpoint answers to GetModule on its own

(***************************************************************************)
(* The lines the inputs are made of.                                       *)
(***************************************************************************)
\* go.mod lines given to ParseMod when it is checked on its own
ParseLines ==
    {"module a.io/m", "module a.io/n", "module", "go 1.21", "go 1.20", "go",
     "require (", "replace (", "retract (", ")",
     "a.io/x v1", "a.io/x => a.io/z v2", "require a.io/x v1",
     "// note", "exclude a.io/x v1"}

\* go.mod lines of the trees the walker is given
WalkLines ==
    {"module a.io/m",
     "require github.com/x/y v1.2.3",
     "require github.com/x/w v1.0.0",
     "require github.com/x/y@ v1.2.3",
     "replace github.com/x/y => ./local",
     "replace github.com/x/y v1.2.3 => ./local",
     "replace github.com/x/y v1.2.3 => github.com/x/z v2.0.0",
     "replace github.com/x/w v1.0.0 => github.com/x/z v2.0.0",
     "replace github.com/x/y@ v1.2.3 => github.com/x/z v2.0.0"}

\* go.sum lines
SumLines ==
    {"github.com/x/y v1.2.3 h1:xyz=", "github.com/x/y v1.2.3/go.mod h1:abc=",
     "a.io/x v1go.mod h1:abc=", "a.io/x v1", "a.io/x  v1 h1:abc= extra", "",
     "a.io/z\tv2  h1:def="}

\* the lines of the go.mod files a run of the command meets
RunLines ==
    {"module a.io/m", "module a.io/n",
     "require github.com/x/w v1.0.0", "require github.com/x/z v2.0.0",
     "replace github.com/x/w v1.0.0 => github.com/x/z v2.0.0"}

Lines == ParseLines \cup WalkLines \cup SumLines \cup RunLines

(***************************************************************************)
(* package strings: the functions the program uses.                        *)
(***************************************************************************)
Char(s, i) == SubSeq(s, i, i)

IsSpace(c) == c \in {" ", "\t", "\n", "\f", "\r"}

HasPrefix(s, p) == Len(s) >= Len(p) /\ SubSeq(s, 1, Len(p)) = p

HasSuffix(s, p) == Len(s) >= Len(p) /\ SubSeq(s, Len(s) - Len(p) + 1, Len(s)) = p

Contains(s, p) == \E i \in 1..(Len(s) - Len(p) + 1) : SubSeq(s, i, i + Len(p) - 1) = p

RECURSIVE TrimLeft(_, _)
TrimLeft(s, c) ==
    IF Len(s) > 0 /\ Char(s, 1) = c THEN TrimLeft(SubSeq(s, 2, Len(s)), c) ELSE s

RECURSIVE TrimRight(_, _)
TrimRight(s, c) ==
    IF Len(s) > 0 /\ Char(s, Len(s)) = c THEN TrimRight(SubSeq(s, 1, Len(s) - 1), c) ELSE s

\* strings.Trim(s, c) for a one-character cutset
Trim(s, c) == TrimRight(TrimLeft(s, c), c)

RECURSIVE FieldsFrom(_, _, _, _)
FieldsFrom(s, i, cur, acc) ==
    LET flushed == IF cur = "" THEN acc ELSE Append(acc, cur) IN
    IF i > Len(s) THEN flushed
    ELSE IF IsSpace(Char(s, i)) THEN FieldsFrom(s, i + 1, "", flushed)
    ELSE FieldsFrom(s, i + 1, cur \o Char(s, i), acc)

\* the fields of the input lines, computed once
FieldsOfLine == [l \in Lines |-> FieldsFrom(l, 1, "", <<>>)]

\* strings.Fields: the maximal runs of non-space characters, in order
Fields(s) == IF s \in Lines THEN FieldsOfLine[s] ELSE FieldsFrom(s, 1, "", <<>>)

\* the whole slice taken for line[1:]
RestFromFirst(seq) == seq

\* line[1:] of a Go slice
Rest(seq) == SubSeq(seq, 2, Len(seq))

\* a local variable: F of the value x, which is computed once
Bind(x, F(_)) == CHOOSE y \in {F(v) : v \in {x}} : TRUE

(***************************************************************************)
(* pkg.Package and Package.String                                          *)
(***************************************************************************)
Package(name, version, indirect) ==
    [Name |-> name, Version |-> version, Indirect |-> indirect]

String(p) == p.Name \o "@" \o p.Version

(***************************************************************************)
(* pkg.ParseMod.  A parse state holds the locals of ParseMod: the ModFile  *)
(* m being filled, the three block flags, and how the scan stands:         *)
(* "scanning", "ok" (returned &m, nil), "err" (returned nil, error) or     *)
(* "panic" (an index out of range ended the goroutine).                    *)
(***************************************************************************)
NoReplace == [k \in {} |-> Package("", "", FALSE)]

NewModFile == [Name |-> "", GoVersion |-> "", Requires |-> <<>>, Replace |-> NoReplace]

ParseStart ==
    [m |-> NewModFile, inRequire |-> FALSE, inReplace |-> FALSE, inRetract |-> FALSE,
     res |-> "scanning"]

\* m.Replace[key] = value
MapPut(f, key, value) == [k \in DOMAIN f \cup {key} |-> IF k = key THEN value ELSE f[k]]

Fail(st) == [st EXCEPT !.res = "err"]

Panic(st) == [st EXCEPT !.res = "panic"]

requireEntry(line) ==
    IF Len(line) < 2 THEN [err |-> TRUE, entry |-> Package("", "", FALSE)]
    ELSE [err |-> FALSE,
          entry |-> Package(Trim(line[1], "\""), line[2],
                            Len(line) > 3 /\ HasSuffix(line[Len(line)], "indirect"))]

\* the tokens of line before the first "=>" (pre) and the others that are not "=>" (post)
RECURSIVE SplitArrow(_, _, _, _)
SplitArrow(line, inPre, preParts, postParts) ==
    IF line = <<>> THEN [pre |-> preParts, post |-> postParts]
    ELSE IF Head(line) = "=>" THEN SplitArrow(Tail(line), FALSE, preParts, postParts)
    ELSE IF inPre THEN SplitArrow(Tail(line), inPre, Append(preParts, Head(line)), postParts)
    ELSE SplitArrow(Tail(line), inPre, preParts, Append(postParts, Head(line)))

replaceEntry(line) ==
    LET sp == SplitArrow(line, TRUE, <<>>, <<>>) IN
    IF Len(sp.pre) < 1 \/ Len(sp.post) < 1
    THEN [err |-> TRUE, old |-> Package("", "", FALSE), new |-> Package("", "", FALSE)]
    ELSE [err |-> FALSE,
          old |-> Package(Trim(sp.pre[1], "\""),
                          IF Len(sp.pre) > 1 THEN sp.pre[2] ELSE "", FALSE),
          new |-> Package(Trim(sp.post[1], "\""),
                          IF Len(sp.post) > 1 THEN sp.post[2] ELSE "", FALSE)]

\* the key ParseMod files a replace entry under
ReplaceKey(old) == String(old)

AddRequire(st, line) ==
    LET r == requireEntry(line) IN
    IF r.err THEN Fail(st)
    ELSE [st EXCEPT !.m.Requires = Append(@, r.entry)]

AddReplace(st, line) ==
    LET r == replaceEntry(line) IN
    IF r.err THEN Fail(st)
    ELSE [st EXCEPT !.m.Replace = MapPut(@, ReplaceKey(r.old), r.new)]

\* the guard of `case parts[0] == "require"` (and of replace, retract) against nesting
NestedBlock(st, directive) ==
    CASE directive = "require" -> st.inRequire
      [] directive = "replace" -> st.inReplace
      [] directive = "retract" -> st.inRetract

OpenBlock(st, directive) ==
    CASE directive = "require" -> [st EXCEPT !.inRequire = TRUE]
      [] directive = "replace" -> [st EXCEPT !.inReplace = TRUE]
      [] directive = "retract" -> [st EXCEPT !.inRetract = TRUE]

CloseBlock(st) ==
    IF st.inRequire THEN [st EXCEPT !.inRequire = FALSE]
    ELSE IF st.inReplace THEN [st EXCEPT !.inReplace = FALSE]
    ELSE IF st.inRetract THEN [st EXCEPT !.inRetract = FALSE]
    ELSE Fail(st)

\* the two cases `module` and `go`: the duplicate test comes before parts[1] is read
SetName(st, parts) ==
    IF st.m.Name # "" THEN Fail(st)
    ELSE IF Len(parts) < 2 THEN Panic(st)
    ELSE [st EXCEPT !.m.Name = parts[2]]

SetGoVersion(st, parts) ==
    IF st.m.GoVersion # "" THEN Fail(st)
    ELSE IF Len(parts) < 2 THEN Panic(st)
    ELSE [st EXCEPT !.m.GoVersion = parts[2]]

Directive(st, parts) ==
    IF NestedBlock(st, parts[1]) THEN Fail(st)
    ELSE IF Len(parts) < 2 THEN Fail(st)
    ELSE IF parts[2] = "(" THEN OpenBlock(st, parts[1])
    ELSE IF parts[1] = "require" THEN AddRequire(st, Rest(parts))
    ELSE IF parts[1] = "replace" THEN AddReplace(st, Rest(parts))
    ELSE st

\* RegularLine letting a line outside every block pass
RegularLineLenient(st, parts) ==
    IF st.inRequire THEN AddRequire(st, parts)
    ELSE IF st.inReplace THEN AddReplace(st, parts)
    ELSE st

\* `default: // just a regular line`
RegularLine(st, parts) ==
    IF st.inRequire THEN AddRequire(st, parts)
    ELSE IF st.inReplace THEN AddReplace(st, parts)
    ELSE IF st.inRetract THEN st
    ELSE Fail(st)

\* one iteration of the `for sc.Scan()` loop
ParseLine(st, line) ==
    IF HasPrefix(line, "//") THEN st
    ELSE LET parts == Fields(line) IN
         IF Len(parts) = 0 THEN st
         ELSE IF parts[1] = "module" THEN SetName(st, parts)
         ELSE IF parts[1] = "go" THEN SetGoVersion(st, parts)
         ELSE IF parts[1] \in {"require", "replace", "retract"} THEN Directive(st, parts)
         ELSE IF parts[1] = ")" THEN CloseBlock(st)
         ELSE RegularLine(st, parts)

\* `return &m, nil` once the scanner is exhausted
ParseEnd(st) == [st EXCEPT !.res = "ok"]

RECURSIVE ParseFrom(_, _)
ParseFrom(st, lines) ==
    IF st.res # "scanning" THEN st
    ELSE IF lines = <<>> THEN ParseEnd(st)
    ELSE ParseFrom(ParseLine(st, Head(lines)), Tail(lines))

\* ParseMod on a whole file
ParseMod(lines) == ParseFrom(ParseStart, lines)

(***************************************************************************)
(* pkg.ParseSum                                                            *)
(***************************************************************************)
\* KeepSumLine without the go.mod test
KeepSumLineAnyVersion(parts) == Len(parts) = 3

\* the two `continue` tests of the loop: the line is kept when neither fires
KeepSumLine(parts) == Len(parts) = 3 /\ ~HasSuffix(parts[2], "go.mod")

\* one iteration of the `for sc.Scan()` loop of ParseSum
SumLine(pkgs, line) ==
    LET parts == Fields(line) IN
    IF KeepSumLine(parts) THEN Append(pkgs, Package(parts[1], parts[2], FALSE)) ELSE pkgs

RECURSIVE ParseSum(_)
ParseSum(lines) ==
    IF lines = <<>> THEN <<>>
    ELSE SumLine(ParseSum(SubSeq(lines, 1, Len(lines) - 1)), lines[Len(lines)])

(***************************************************************************)
(* File trees (fs.FS).  A tree says whether go.mod can be opened at its    *)
(* top, the lines of that go.mod, and its files in walk order; a file has  *)
(* its path, and what licensecheck.Scan reports for its content.           *)
(***************************************************************************)
Tree(hasMod, gomod, files) ==
    [zip |-> FALSE, hasMod |-> hasMod, gomod |-> gomod, files |-> files]

\* the archive the proxy serves: every entry lies under <module>@<version>/, so
\* no go.mod can be opened at the top of the zip reader
ZipTree(files) == [zip |-> TRUE, hasMod |-> FALSE, gomod |-> <<>>, files |-> files]

RECURSIVE SplitFrom(_, _, _, _, _)
SplitFrom(s, sep, i, cur, acc) ==
    IF i > Len(s) THEN Append(acc, cur)
    ELSE IF Char(s, i) = sep THEN SplitFrom(s, sep, i + 1, "", Append(acc, cur))
    ELSE SplitFrom(s, sep, i + 1, cur \o Char(s, i), acc)

\* strings.Split(s, sep) for a one-character separator
Split(s, sep) == SplitFrom(s, sep, 1, "", <<>>)

RECURSIVE ReplaceAll(_, _, _)
ReplaceAll(s, old, new) ==
    IF s = "" THEN ""
    ELSE (IF Char(s, 1) = old THEN new ELSE Char(s, 1))
         \o ReplaceAll(SubSeq(s, 2, Len(s)), old, new)

(***************************************************************************)
(* pkg.WriteToZip, licenseChecker and licenseReader.  A file of a tree has *)
(* a path, a kind ("file", "dir" or "symlink"), and what licensecheck.Scan *)
(* reports for its content: the coverage Percent and the IDs of Match.     *)
(***************************************************************************)
coverageThreshold == 75

unknownLicenseType == "UNKNOWN"

FileNames ==
    {"COPYING", "COPYING.md", "COPYING.markdown", "COPYING.txt",
     "LICENCE", "LICENCE.md", "LICENCE.markdown", "LICENCE.txt",
     "LICENSE", "LICENSE.md", "LICENSE.markdown", "LICENSE.txt",
     "LICENSE-2.0.txt", "LICENCE-2.0.txt", "LICENSE-APACHE", "LICENCE-APACHE",
     "LICENSE-APACHE-2.0.txt", "LICENCE-APACHE-2.0.txt", "LICENSE-MIT", "LICENCE-MIT",
     "LICENSE.MIT", "LICENCE.MIT", "LICENSE.code", "LICENCE.code",
     "LICENSE.docs", "LICENCE.docs", "LICENSE.rst", "LICENCE.rst",
     "MIT-LICENSE", "MIT-LICENCE", "MIT-LICENSE.md", "MIT-LICENCE.md",
     "MIT-LICENSE.markdown", "MIT-LICENCE.markdown", "MIT-LICENSE.txt", "MIT-LICENCE.txt",
     "MIT_LICENSE", "MIT_LICENCE", "UNLICENSE", "UNLICENCE"}

File(path, kind, percent, match) ==
    [path |-> path, kind |-> kind, Percent |-> percent, Match |-> match]

\* filepath.Base and the segments of filepath.Dir, from the segments of a clean
\* slash-separated path
Base(segments) == segments[Len(segments)]

DirParts(segments) ==
    IF Len(segments) = 1 THEN <<".">> ELSE SubSeq(segments, 1, Len(segments) - 1)

\* licenseChecker without the test of the directory
licenseCheckerAnywhere(p) == Base(Split(p, "/")) \in FileNames

\* licenseChecker: whether the file is read through a licenseReader
licenseChecker(p) ==
    LET segments == Split(p, "/") IN
    /\ Base(segments) \in FileNames
    /\ \A k \in 1..Len(DirParts(segments)) : DirParts(segments)[k] # "vendor"

\* licenseReader.Close: the licenses of one file
Close(f) ==
    (IF f.Percent < coverageThreshold THEN <<unknownLicenseType>> ELSE <<>>) \o f.Match

\* writeToZip: whether the file is opened and copied to the archive
Copied(fsys, f) ==
    IF fsys.zip THEN ~HasSuffix(f.path, "/")
    ELSE /\ ~(f.path = ".git" \/ HasPrefix(f.path, ".git/"))
         /\ f.kind = "file"

\* the reader licenseChecker returns for a file, after its Close: the file
\* itself when it is not checked, else a licenseReader with its licenses
Reader(f) ==
    [path |-> f.path, isLicenseReader |-> licenseChecker(f.path),
     licenses |-> IF licenseChecker(f.path) THEN Close(f) ELSE <<>>]

RECURSIVE Listers(_, _)
Listers(fsys, files) ==
    IF files = <<>> THEN <<>>
    ELSE (IF Copied(fsys, Head(files)) THEN <<Reader(Head(files))>> ELSE <<>>)
         \o Listers(fsys, Tail(files))

\* writeToZip: the readers of the files copied, in file order, all closed
writeToZip(fsys) == Listers(fsys, fsys.files)

\* the loop of WriteToZip, dropping a license an earlier reader already gave
RECURSIVE LicensesOnce(_)
LicensesOnce(licenseListers) ==
    IF licenseListers = <<>> THEN <<>>
    ELSE LET n == Len(licenseListers)
             before == LicensesOnce(SubSeq(licenseListers, 1, n - 1))
             seen == {before[k] : k \in 1..Len(before)}
         IN before \o SelectSeq(licenseListers[n].licenses, LAMBDA l : l \notin seen)

\* the loop of WriteToZip over the readers
RECURSIVE Licenses(_)
Licenses(licenseListers) ==
    IF licenseListers = <<>> THEN <<>>
    ELSE (IF Head(licenseListers).isLicenseReader
          THEN Head(licenseListers).licenses ELSE <<>>)
         \o Licenses(Tail(licenseListers))

\* pkg.WriteToZip: the licenses of the readers of writeToZip, in file order
WriteToZip(fsys) == Licenses(writeToZip(fsys))

\* the licenses FindLicenses appends for one file from its scan
Scanned(cov) ==
    (IF cov.Percent < coverageThreshold THEN <<unknownLicenseType>> ELSE <<>>)
        \o cov.Match

\* the callback of FindLicenses on each entry, isVendor being shared by all
RECURSIVE LicensesFrom(_, _)
LicensesFrom(files, isVendor) ==
    IF files = <<>> THEN <<>>
    ELSE LET f == Head(files)
             segments == Split(f.path, "/")
             known == Base(segments) \in FileNames
             vendored == known /\ (isVendor \/ \E k \in 1..Len(DirParts(segments)) :
                                                  DirParts(segments)[k] = "vendor")
         IN (IF known /\ ~vendored /\ f.kind # "dir" THEN Scanned(f) ELSE <<>>)
            \o LicensesFrom(Tail(files), vendored \/ isVendor)

\* pkg.FindLicenses
FindLicenses(fsys) == LicensesFrom(fsys.files, FALSE)

(***************************************************************************)
(* pkg.GetModule.  The environment env gives GOPATH, the module cache      *)
(* under it (coordinate -> tree, for the directories that exist), what the *)
(* proxy's list endpoint answers (name -> versions, where it answers) and  *)
(* the coordinates whose archive request fails (down).  The result tells   *)
(* the error, the tree, and the requests made to the proxy.                *)
(***************************************************************************)
NoTree == Tree(FALSE, <<>>, <<>>)

Coordinate(module, version) == module \o "@" \o version

GetVersions(module, env) ==
    IF module \in DOMAIN env.versions
    THEN [err |-> "nil", versions |-> env.versions[module]]
    ELSE [err |-> "error", versions |-> <<>>]

\* the archive the proxy holds for module@version: the module's directory, its
\* go.mod and an MIT license file, all under <module>@<version>/
Archive(module, version) ==
    <<File(Coordinate(module, version) \o "/", "dir", 0, <<>>),
      File(Coordinate(module, version) \o "/go.mod", "file", 0, <<>>),
      File(Coordinate(module, version) \o "/LICENSE", "file", 100, <<"MIT">>)>>

\* the archive request for module@version
GetZip(module, version, env, lists) ==
    IF Coordinate(module, version) \in env.down
    THEN [err |-> "error", fsys |-> NoTree, lists |-> lists,
          zips |-> <<Coordinate(module, version)>>]
    ELSE [err |-> "nil", fsys |-> ZipTree(Archive(module, version)), lists |-> lists,
          zips |-> <<Coordinate(module, version)>>]

\* the local lookup without the test of go.mod
GetVersionedAnyDir(module, version, force, env, lists) ==
    LET c == Coordinate(module, version) IN
    IF ~force /\ env.gopath # "" /\ c \in DOMAIN env.cache
    THEN [err |-> "nil", fsys |-> env.cache[c], lists |-> lists, zips |-> <<>>]
    ELSE [err |-> "nil", fsys |-> ZipTree(Archive(module, version)), lists |-> lists,
          zips |-> <<c>>]

\* GetModule from `// first see if we have it locally` on, the version known
GetVersioned(module, version, force, env, lists) ==
    LET c == Coordinate(module, version) IN
    IF ~force /\ env.gopath # "" /\ c \in DOMAIN env.cache /\ env.cache[c].hasMod
    THEN [err |-> "nil", fsys |-> env.cache[c], lists |-> lists, zips |-> <<>>]
    ELSE GetZip(module, version, env, lists)

\* GetModule taking the first version listed
GetModuleFirstListed(module, version, force, env) ==
    IF ~Contains(module, ".")
    THEN [err |-> "error", fsys |-> NoTree, lists |-> 0, zips |-> <<>>]
    ELSE IF version = ""
    THEN LET v == GetVersions(module, env) IN
         IF v.err # "nil" THEN [err |-> "error", fsys |-> NoTree, lists |-> 1, zips |-> <<>>]
         ELSE IF Len(v.versions) = 0
         THEN [err |-> "panic", fsys |-> NoTree, lists |-> 1, zips |-> <<>>]
         ELSE GetVersioned(module, v.versions[1], force, env, 1)
    ELSE GetVersioned(module, version, force, env, 0)

GetModule(module, version, force, env) ==
    IF ~Contains(module, ".")
    THEN [err |-> "error", fsys |-> NoTree, lists |-> 0, zips |-> <<>>]
    ELSE IF version = ""
    THEN LET v == GetVersions(module, env) IN
         IF v.err # "nil" THEN [err |-> "error", fsys |-> NoTree, lists |-> 1, zips |-> <<>>]
         ELSE IF Len(v.versions) = 0
         THEN [err |-> "panic", fsys |-> NoTree, lists |-> 1, zips |-> <<>>]
         ELSE GetVersioned(module, v.versions[Len(v.versions)], force, env, 1)
    ELSE GetVersioned(module, version, force, env, 0)

(***************************************************************************)
(* cmd: pkgInfo, cleanFilename, getWriter, writeModule, getAndWriteModule  *)
(***************************************************************************)
pkgInfo(module, version, licenses, path) ==
    [Module |-> module, Version |-> version, Licenses |-> licenses, Path |-> path]

NoInfo == pkgInfo("", "", <<>>, "")

InfoString(p) == p.Module \o "@" \o p.Version

cleanFilename(module, version, ext) ==
    ReplaceAll(module, "/", "_") \o (IF version # "" THEN "@" \o version ELSE "")
    \o "." \o ext

\* filepath.Join of two clean, non-empty paths
Join(a, b) == a \o "/" \o b

\* getWriter: the file name, and whether the file is created (it is not when no
\* output path is given, nor when the file exists and is not empty).  The disk
\* maps each non-empty output file to the coordinate whose archive it holds.
getWriter(outpath, prefix, module, version, disk) ==
    IF outpath = "" THEN [filename |-> "", create |-> FALSE]
    ELSE LET base == cleanFilename(module, version, "zip")
             filename == IF prefix # "" THEN Join(prefix, base) ELSE base
         IN [filename |-> filename, create |-> filename \notin DOMAIN disk]

\* writeModule: the error, the pkgInfo and the disk afterwards
writeModule(outpath, prefix, name, version, fsys, disk) ==
    Bind(ParseMod(fsys.gomod), LAMBDA mod :
    Bind(IF name = "" THEN mod.m.Name ELSE name, LAMBDA n :
    Bind(getWriter(outpath, prefix, n, version, disk), LAMBDA w :
        IF name = "" /\ ~fsys.hasMod THEN [err |-> "ErrNoModFile", p |-> NoInfo, disk |-> disk]
        ELSE IF name = "" /\ mod.res = "panic" THEN [err |-> "panic", p |-> NoInfo, disk |-> disk]
        ELSE IF name = "" /\ mod.res = "err" THEN [err |-> "error", p |-> NoInfo, disk |-> disk]
        ELSE [err |-> "nil",
              p |-> pkgInfo(n, version, WriteToZip(fsys), w.filename),
              disk |-> IF w.create THEN MapPut(disk, w.filename, Coordinate(n, version))
                       ELSE disk])))

\* getAndWriteModule
getAndWriteModule(outpath, prefix, name, version, env, disk) ==
    Bind(GetModule(name, version, FALSE, env), LAMBDA g :
        IF g.err # "nil" THEN [err |-> g.err, p |-> NoInfo, disk |-> disk]
        ELSE writeModule(outpath, prefix, name, version, g.fsys, disk))

(***************************************************************************)
(* cmd.writeModuleFromSource.  A walk state w holds what the call has      *)
(* built so far: the pkgInfos to return, the error to return ("nil" for    *)
(* none), the shared map `existing`, the disk, and two records of what was *)
(* done: the coordinates GetModule was called for, in call order, and one  *)
(* entry per iteration of the loop over mod.Requires.                      *)
(***************************************************************************)
Iteration(req, replaced, target, calls, added) ==
    [req |-> req, replaced |-> replaced, target |-> target, calls |-> calls,
     added |-> added]

\* Substitute trying the name before the full coordinate
SubstituteNameFirst(Replace, p) ==
    IF p.Name \in DOMAIN Replace THEN [replaced |-> TRUE, p |-> Replace[p.Name]]
    ELSE IF String(p) \in DOMAIN Replace THEN [replaced |-> TRUE, p |-> Replace[String(p)]]
    ELSE [replaced |-> FALSE, p |-> p]

\* `was it replaced? Try by version and then by name`
Substitute(Replace, p) ==
    IF String(p) \in DOMAIN Replace THEN [replaced |-> TRUE, p |-> Replace[String(p)]]
    ELSE IF p.Name \in DOMAIN Replace THEN [replaced |-> TRUE, p |-> Replace[p.Name]]
    ELSE [replaced |-> FALSE, p |-> p]

\* IsPathReplacement with the test left out
NoPathReplacement(replaced, p) == FALSE

\* `is the module a path one due to replaces? We ignore those`
IsPathReplacement(replaced, p) == replaced /\ p.Version = ""

\* the loop's first test: the requirement is already in `existing`
AlreadyExisting(existing, p) == String(p) \in existing

\* `return nil, fmt.Errorf(...)`: the pkgInfos are dropped; a panic stays a panic
Abort(w, err) ==
    [w EXCEPT !.pkgInfos = <<>>, !.err = IF err = "panic" THEN "panic" ELSE "error"]

\* Requirement recording in `existing` the requirement as go.mod has it
RequirementAsWritten(w, Replace, p, outpath, prefix, env) ==
    Bind(Substitute(Replace, p), LAMBDA s :
    Bind(String(s.p), LAMBDA c :
    Bind(getAndWriteModule(outpath, prefix, s.p.Name, s.p.Version, env, w.disk), LAMBDA g :
        IF AlreadyExisting(w.existing, p)
        THEN [w EXCEPT !.trace = Append(@, Iteration(p, FALSE, p, <<>>, <<>>))]
        ELSE IF IsPathReplacement(s.replaced, s.p)
        THEN [w EXCEPT !.trace = Append(@, Iteration(p, s.replaced, s.p, <<>>, <<>>))]
        ELSE IF g.err # "nil"
        THEN [Abort(w, g.err) EXCEPT
                  !.fetched = Append(@, c),
                  !.trace = Append(@, Iteration(p, s.replaced, s.p, <<c>>, <<>>))]
        ELSE [w EXCEPT
                  !.existing = @ \cup {String(p)},
                  !.pkgInfos = Append(@, g.p),
                  !.disk = g.disk,
                  !.fetched = Append(@, c),
                  !.trace = Append(@, Iteration(p, s.replaced, s.p, <<c>>, <<g.p>>))])))

\* one iteration of `for _, p := range mod.Requires`
Requirement(w, Replace, p, outpath, prefix, env) ==
    Bind(Substitute(Replace, p), LAMBDA s :
    Bind(String(s.p), LAMBDA c :
    Bind(getAndWriteModule(outpath, prefix, s.p.Name, s.p.Version, env, w.disk), LAMBDA g :
        IF AlreadyExisting(w.existing, p)
        THEN [w EXCEPT !.trace = Append(@, Iteration(p, FALSE, p, <<>>, <<>>))]
        ELSE IF IsPathReplacement(s.replaced, s.p)
        THEN [w EXCEPT !.trace = Append(@, Iteration(p, s.replaced, s.p, <<>>, <<>>))]
        ELSE IF g.err # "nil"
        THEN [Abort(w, g.err) EXCEPT
                  !.fetched = Append(@, c),
                  !.trace = Append(@, Iteration(p, s.replaced, s.p, <<c>>, <<>>))]
        ELSE [w EXCEPT
                  !.existing = @ \cup {c},
                  !.pkgInfos = Append(@, g.p),
                  !.disk = g.disk,
                  !.fetched = Append(@, c),
                  !.trace = Append(@, Iteration(p, s.replaced, s.p, <<c>>, <<g.p>>))])))

\* Requirements taking the requirements from the last to the first
RECURSIVE RequirementsLastFirst(_, _, _, _, _, _)
RequirementsLastFirst(w, Replace, reqs, outpath, prefix, env) ==
    IF reqs = <<>> \/ w.err # "nil" THEN w
    ELSE RequirementsLastFirst(
             Requirement(w, Replace, reqs[Len(reqs)], outpath, prefix, env),
             Replace, SubSeq(reqs, 1, Len(reqs) - 1), outpath, prefix, env)

RECURSIVE Requirements(_, _, _, _, _, _)
Requirements(w, Replace, reqs, outpath, prefix, env) ==
    IF reqs = <<>> \/ w.err # "nil" THEN w
    ELSE Requirements(Requirement(w, Replace, Head(reqs), outpath, prefix, env),
                      Replace, Tail(reqs), outpath, prefix, env)

\* fsys.Open(modFile) failed: its error is assigned to the result variable err
\* (`f, err := fsys.Open(modFile)` declares only f), a warning is logged, and
\* the bare `return` at the end returns the pkgInfos together with that err
ModFileNotOpened(w) == [w EXCEPT !.err = "error"]

writeModuleFromSource(outpath, prefix, name, version, fsys, existing, env, disk) ==
    Bind(writeModule(outpath, prefix, name, version, fsys, disk), LAMBDA r :
    Bind([pkgInfos |-> <<r.p>>, err |-> "nil",
          existing |-> existing \cup {InfoString(r.p)},
          disk |-> r.disk, fetched |-> <<>>, trace |-> <<>>], LAMBDA w0 :
    Bind(ParseMod(fsys.gomod), LAMBDA mod :
        IF r.err # "nil"
        THEN [pkgInfos |-> <<>>, err |-> r.err, existing |-> existing, disk |-> disk,
              fetched |-> <<>>, trace |-> <<>>]
        ELSE IF ~fsys.hasMod THEN ModFileNotOpened(w0)
        ELSE IF mod.res # "ok" THEN Abort(w0, mod.res)
        ELSE Requirements(w0, mod.m.Replace, mod.m.Requires, outpath, prefix, env))))

(***************************************************************************)
(* regexp, as far as knownBuildFlagPatterns needs it.  A pattern is a      *)
(* sequence of nodes [op, arg, sub]; Match follows Go's leftmost-first     *)
(* rule: of the ways to match at a position it takes the one a             *)
(* backtracking search finds first, greedy operators trying the longer     *)
(* alternative first.  `todo` is what is left to match, cap the bounds of  *)
(* the named group `version`.                                              *)
(***************************************************************************)
Digits == "0123456789"

Letters == "abcdefghijklmnopqrstuvwxyzABCDEFGHIJKLMNOPQRSTUVWXYZ"

OneOf(c, chars) == \E k \in 1..Len(chars) : Char(chars, k) = c

\* the classes \d, \S, [-\w], `.` (any character but a newline), the escaped
\* dot and [...]
InClass(c, node) ==
    CASE node.arg = "\\d" -> OneOf(c, Digits)
      [] node.arg = "\\." -> c = "."
      [] node.arg = "\\S" -> ~OneOf(c, " \t\n\f\r")
      [] node.arg = "[-\\w]" -> OneOf(c, "-_" \o Digits \o Letters)
      [] node.arg = "." -> c # "\n"
      [] OTHER -> OneOf(c, node.arg)

Cls(chars) == [op |-> "class", arg |-> chars, sub |-> <<>>]

Lit(s) == [op |-> "seq", arg |-> "", sub |-> [k \in 1..Len(s) |-> Cls(Char(s, k))]]

Opt(sub) == [op |-> "?", arg |-> "", sub |-> sub]

Star(sub) == [op |-> "*", arg |-> "", sub |-> sub]

Plus(sub) == [op |-> "+", arg |-> "", sub |-> sub]

Named(sub) ==
    [op |-> "seq", arg |-> "",
     sub |-> <<[op |-> "open", arg |-> "", sub |-> <<>>]>> \o sub
             \o <<[op |-> "close", arg |-> "", sub |-> <<>>]>>]

NoMatch == [ok |-> FALSE, from |-> 0, to |-> 0, cap |-> <<0, 0>>]

RECURSIVE Match(_, _, _, _)
Match(todo, s, i, cap) ==
    IF todo = <<>> THEN [ok |-> TRUE, from |-> 0, to |-> i, cap |-> cap]
    ELSE LET n == Head(todo)
             rest == Tail(todo)
         IN CASE n.op = "class" ->
                   IF i <= Len(s) /\ InClass(Char(s, i), n)
                   THEN Match(rest, s, i + 1, cap) ELSE NoMatch
              [] n.op = "seq" -> Match(n.sub \o rest, s, i, cap)
              [] n.op = "open" -> Match(rest, s, i, <<i, cap[2]>>)
              [] n.op = "close" -> Match(rest, s, i, <<cap[1], i>>)
              [] n.op = "?" ->
                   LET m == Match(n.sub \o rest, s, i, cap) IN
                   IF m.ok THEN m ELSE Match(rest, s, i, cap)
              [] n.op = "*" ->
                   LET m == Match(n.sub \o <<n>> \o rest, s, i, cap) IN
                   IF m.ok THEN m ELSE Match(rest, s, i, cap)
              [] n.op = "+" -> Match(n.sub \o <<Star(n.sub)>> \o rest, s, i, cap)

\* the leftmost match that starts at i or later
RECURSIVE FindFrom(_, _, _)
FindFrom(pattern, s, i) ==
    IF i > Len(s) + 1 THEN NoMatch
    ELSE LET m == Match(pattern, s, i, <<0, 0>>) IN
         IF m.ok THEN [m EXCEPT !.from = i] ELSE FindFrom(pattern, s, i + 1)

\* regEx.FindAllStringSubmatch(content, -1): the successive matches, each as
\* the text of the group `version`
RECURSIVE FindAllStringSubmatch(_, _, _)
FindAllStringSubmatch(pattern, s, i) ==
    LET m == FindFrom(pattern, s, i) IN
    IF ~m.ok THEN <<>>
    ELSE <<SubSeq(s, m.cap[1], m.cap[2] - 1)>>
         \o FindAllStringSubmatch(pattern, s, IF m.to > m.from THEN m.to ELSE m.to + 1)

\* v?\d+.\d+.\d+[-\w]*
VersionPattern ==
    Named(<<Opt(<<Cls("v")>>), Plus(<<Cls("\\d")>>), Cls("."), Plus(<<Cls("\\d")>>),
            Cls("."), Plus(<<Cls("\\d")>>), Star(<<Cls("[-\\w]")>>)>>)

\* (\S+/)*
PathPrefix == Star(<<Plus(<<Cls("\\S")>>), Cls("/")>>)

\* the patterns with the one for a tag first
knownBuildFlagPatternsTagFirst ==
    << <<Cls("\\."), Cls("tT"), Lit("ag"), Cls("="), PathPrefix, VersionPattern>>,
       <<Cls("\\."), Opt(<<Cls("gG"), Lit("it")>>), Opt(<<Cls("bB"), Lit("uild")>>),
         Cls("vV"), Lit("ersion="), PathPrefix, VersionPattern>> >>

knownBuildFlagPatterns ==
    << <<Cls("\\."), Opt(<<Cls("gG"), Lit("it")>>), Opt(<<Cls("bB"), Lit("uild")>>),
         Cls("vV"), Lit("ersion="), PathPrefix, VersionPattern>>,
       <<Cls("\\."), Cls("tT"), Lit("ag"), Cls("="), PathPrefix, VersionPattern>> >>

\* the loop over allMatches: results["version"] is set from each match in turn
\* until the map holds a non-empty value; found tells whether the map has the key
RECURSIVE FirstNonEmpty(_, _)
FirstNonEmpty(allMatches, results) ==
    IF allMatches = <<>> THEN results
    ELSE IF Head(allMatches) # "" THEN [found |-> TRUE, version |-> Head(allMatches)]
    ELSE FirstNonEmpty(Tail(allMatches), [found |-> TRUE, version |-> ""])

matchNamedCaptureGroups(regEx, content) ==
    FirstNonEmpty(FindAllStringSubmatch(regEx, content, 1), [found |-> FALSE, version |-> ""])

\* the loop over knownBuildFlagPatterns; fullVersion is the named result
RECURSIVE VersionFromPatterns(_, _, _)
VersionFromPatterns(patterns, ldflags, fullVersion) ==
    IF patterns = <<>> THEN fullVersion
    ELSE LET groups == matchNamedCaptureGroups(Head(patterns), ldflags)
             v == groups.version
             full == IF HasPrefix(v, "v") THEN v ELSE "v" \o v
         IN IF ~groups.found THEN VersionFromPatterns(Tail(patterns), ldflags, fullVersion)
            ELSE IF Len(Split(v, ".")) = 0 THEN VersionFromPatterns(Tail(patterns), ldflags, full)
            ELSE full

BuildSetting(key, value) == [Key |-> key, Value |-> value]

\* a version whatever the settings hold
parseVersionOrDefault(settings) == "v0.0.0"

RECURSIVE parseVersionFromBuildFlags(_)
parseVersionFromBuildFlags(settings) ==
    IF settings = <<>> THEN ""
    ELSE IF Head(settings).Key # "-ldflags" THEN parseVersionFromBuildFlags(Tail(settings))
    ELSE IF Head(settings).Value = "" THEN ""
    ELSE VersionFromPatterns(knownBuildFlagPatterns, Head(settings).Value, "")

(***************************************************************************)
(* cmd.writeModuleFromBinary.  info is what buildinfo.Read returns: ok     *)
(* (FALSE for its error), Main, Settings and Deps.  The walk state is that *)
(* of writeModuleFromSource; its trace has one entry for the main module   *)
(* and one per entry of info.Deps.                                         *)
(***************************************************************************)
BuildInfo(ok, main, settings, deps) ==
    [ok |-> ok, Main |-> main, Settings |-> settings, Deps |-> deps]

Module(path, version) == [Path |-> path, Version |-> version]

Visit(m, calculated, calls, added) ==
    [m |-> m, calculated |-> calculated, calls |-> calls, added |-> added]

\* the test of the version taking only the empty one for missing
NoVersionWhenEmpty(version) == version = ""

\* `version == "" || version == "(devel)"`
NoVersion(version) == version = "" \/ version = "(devel)"

\* the main module: its version is taken from the build flags when the binary
\* records none, and a failed fetch is an error only for a recorded version
MainModule(w, info, outpath, prefix, env) ==
    Bind(NoVersion(info.Main.Version), LAMBDA calculatedVersion :
    Bind(IF calculatedVersion THEN parseVersionFromBuildFlags(info.Settings)
         ELSE info.Main.Version, LAMBDA version :
    Bind(Module(info.Main.Path, version), LAMBDA m :
    Bind(Coordinate(m.Path, version), LAMBDA c :
    Bind(getAndWriteModule(outpath, prefix, m.Path, version, env, w.disk), LAMBDA g :
        IF NoVersion(version)
        THEN [w EXCEPT !.trace = Append(@, Visit(m, calculatedVersion, <<>>, <<>>))]
        ELSE IF g.err # "nil" /\ ~calculatedVersion
        THEN [Abort(w, g.err) EXCEPT
                  !.fetched = Append(@, c),
                  !.trace = Append(@, Visit(m, calculatedVersion, <<c>>, <<>>))]
        ELSE IF g.err # "nil"
        THEN [w EXCEPT
                  !.fetched = Append(@, c),
                  !.trace = Append(@, Visit(m, calculatedVersion, <<c>>, <<>>))]
        ELSE [w EXCEPT
                  !.existing = @ \cup {InfoString(g.p)},
                  !.pkgInfos = Append(@, g.p),
                  !.disk = g.disk,
                  !.fetched = Append(@, c),
                  !.trace = Append(@, Visit(m, calculatedVersion, <<c>>, <<g.p>>))])))))

\* one iteration of `for _, d := range info.Deps`
Dep(w, d, outpath, prefix, env) ==
    Bind(Coordinate(d.Path, d.Version), LAMBDA c :
    Bind(getAndWriteModule(outpath, prefix, d.Path, d.Version, env, w.disk), LAMBDA g :
        IF NoVersion(d.Version) \/ c \in w.existing
        THEN [w EXCEPT !.trace = Append(@, Visit(d, FALSE, <<>>, <<>>))]
        ELSE IF g.err = "ErrNoModFile"
        THEN [w EXCEPT
                  !.fetched = Append(@, c),
                  !.trace = Append(@, Visit(d, FALSE, <<c>>, <<>>))]
        ELSE IF g.err # "nil"
        THEN [Abort(w, g.err) EXCEPT
                  !.fetched = Append(@, c),
                  !.trace = Append(@, Visit(d, FALSE, <<c>>, <<>>))]
        ELSE [w EXCEPT
                  !.existing = @ \cup {InfoString(g.p)},
                  !.pkgInfos = Append(@, g.p),
                  !.disk = g.disk,
                  !.fetched = Append(@, c),
                  !.trace = Append(@, Visit(d, FALSE, <<c>>, <<g.p>>))]))

RECURSIVE Deps(_, _, _, _, _)
Deps(w, deps, outpath, prefix, env) ==
    IF deps = <<>> \/ w.err # "nil" THEN w
    ELSE Deps(Dep(w, Head(deps), outpath, prefix, env), Tail(deps), outpath, prefix, env)

writeModuleFromBinary(outpath, prefix, info, existing, env, disk) ==
    LET w0 == [pkgInfos |-> <<>>, err |-> "nil", existing |-> existing, disk |-> disk,
               fetched |-> <<>>, trace |-> <<>>]
    IN
    IF ~info.ok THEN [w0 EXCEPT !.err = "error"]
    ELSE Deps(MainModule(w0, info, outpath, prefix, env), info.Deps, outpath, prefix, env)

(***************************************************************************)
(* cmd.GoVersion.  repo tells what the git commands answer in a directory: *)
(* whether git is on the path, and for `describe`, `rev-list --count` and  *)
(* `show` whether the command succeeds and what it prints.                 *)
(***************************************************************************)
Command(ok, out) == [ok |-> ok, out |-> out]

Repo(git, describe, revList, show) ==
    [git |-> git, describe |-> describe, revList |-> revList, show |-> show]

RECURSIVE TrimSpace(_)
TrimSpace(s) ==
    IF s = "" THEN s
    ELSE IF IsSpace(Char(s, 1)) THEN TrimSpace(SubSeq(s, 2, Len(s)))
    ELSE IF IsSpace(Char(s, Len(s))) THEN TrimSpace(SubSeq(s, 1, Len(s) - 1))
    ELSE s

GoVersion(repo) ==
    LET tag == IF ~repo.describe.ok \/ TrimSpace(repo.describe.out) = "" THEN "v0.0.0"
               ELSE TrimSpace(repo.describe.out)
    IN
    IF ~repo.git THEN ""
    ELSE IF ~repo.revList.ok THEN ""
    ELSE IF TrimSpace(repo.revList.out) = "0" THEN tag
    ELSE IF ~repo.show.ok THEN ""
    ELSE tag \o "-" \o TrimSpace(repo.show.out)

(***************************************************************************)
(* Inputs.                                                                 *)
(***************************************************************************)
SeqsUpTo(S, n) == UNION {[1..k -> S] : k \in 0..n}

\* the trees: one per go.mod of at most MaxManifestLines lines, a directory
\* without go.mod, and an archive of the proxy
WalkTrees ==
    {Tree(TRUE, t, <<>>) : t \in SeqsUpTo(WalkLines, MaxManifestLines)}
    \cup {NoTree, ZipTree(Archive("github.com/x/y", "v1.2.3"))}

\* name and version as the command passes them: a source directory (no name),
\* or a named module
WalkRoots ==
    {[name |-> "", version |-> ""], [name |-> "github.com/x/y", version |-> "v1.2.3"]}

\* what `existing` may hold from earlier walks of the same run
WalkExisting == {{}, {"github.com/x/w@v1.0.0"}, {"github.com/x/z@v2.0.0"}}

\* the archive requests that fail: none, or those for one coordinate
WalkDown ==
    {{}, {"github.com/x/y@v1.2.3"}, {"github.com/x/w@v1.0.0"}, {"github.com/x/z@v2.0.0"}}

NoMap == [k \in {} |-> ""]

\* no GOPATH, no answer from the list endpoint, the given archive requests failing
Env(down) ==
    [gopath |-> "", cache |-> [k \in {} |-> NoTree], versions |-> [k \in {} |-> <<>>],
     down |-> down]

WalkNone ==
    [pkgInfos |-> <<>>, err |-> "nil", existing |-> {}, disk |-> NoMap,
     fetched |-> <<>>, trace |-> <<>>]

WalkIdle ==
    [pc |-> "idle", name |-> "", version |-> "", fsys |-> NoTree, existing |-> {},
     down |-> {}, res |-> WalkNone]

CallIdle == [fn |-> "none"]

RunIdle == [pc |-> "idle"]

ParserIdle == [input |-> <<>>, pos |-> 1, st |-> ParseStart]

SumIdle == [input |-> <<>>, pos |-> 1, pkgs |-> <<>>, res |-> "scanning"]

(***************************************************************************)
(* SpecParse: ParseMod reads one input, a line per step.                   *)
(***************************************************************************)
InitParse ==
    /\ parser \in [input : SeqsUpTo(ParseLines, MaxLines), pos : {1}, st : {ParseStart}]
    /\ sum = SumIdle
    /\ walk = WalkIdle
    /\ run = RunIdle
    /\ call = CallIdle

ScanLine ==
    /\ parser.st.res = "scanning"
    /\ parser.pos <= Len(parser.input)
    /\ parser' = [parser EXCEPT !.st = ParseLine(@, parser.input[parser.pos]),
                                !.pos = @ + 1]
    /\ UNCHANGED <<sum, walk, run, call>>

ParseReturn ==
    /\ parser.st.res = "scanning"
    /\ parser.pos > Len(parser.input)
    /\ parser' = [parser EXCEPT !.st = ParseEnd(@)]
    /\ UNCHANGED <<sum, walk, run, call>>

NextParse == ScanLine \/ ParseReturn

SpecParse == InitParse /\ [][NextParse]_vars

(***************************************************************************)
(* SpecSum: ParseSum reads one input, a line per step.                     *)
(***************************************************************************)
InitSum ==
    /\ sum \in [input : SeqsUpTo(SumLines, MaxSumLines), pos : {1}, pkgs : {<<>>},
                res : {"scanning"}]
    /\ parser = ParserIdle
    /\ walk = WalkIdle
    /\ run = RunIdle
    /\ call = CallIdle

SumScanLine ==
    /\ sum.res = "scanning"
    /\ sum.pos <= Len(sum.input)
    /\ sum' = [sum EXCEPT !.pkgs = SumLine(@, sum.input[sum.pos]), !.pos = @ + 1]
    /\ UNCHANGED <<parser, walk, run, call>>

SumReturn ==
    /\ sum.res = "scanning"
    /\ sum.pos > Len(sum.input)
    /\ sum' = [sum EXCEPT !.res = "done"]
    /\ UNCHANGED <<parser, walk, run, call>>

NextSum == SumScanLine \/ SumReturn

SpecSum == InitSum /\ [][NextSum]_vars

(***************************************************************************)
(* SpecWalk: one call of writeModuleFromSource, output path "out", no      *)
(* prefix, on a drawn tree, root, `existing` and proxy.                    *)
(***************************************************************************)
InitWalk ==
    /\ \E root \in WalkRoots, fsys \in WalkTrees, existing \in WalkExisting, down \in WalkDown :
          walk = [pc |-> "called", name |-> root.name, version |-> root.version,
                  fsys |-> fsys, existing |-> existing, down |-> down, res |-> WalkNone]
    /\ parser = ParserIdle
    /\ sum = SumIdle
    /\ run = RunIdle
    /\ call = CallIdle

WalkSource ==
    /\ walk.pc = "called"
    /\ walk' = [walk EXCEPT
                   !.pc = "returned",
                   !.res = writeModuleFromSource("out", "", walk.name, walk.version,
                                                 walk.fsys, walk.existing,
                                                 Env(walk.down), NoMap)]
    /\ UNCHANGED <<parser, sum, run, call>>

NextWalk == WalkSource

SpecWalk == InitWalk /\ [][NextWalk]_vars

(***************************************************************************)
(* Spec: one run of the sources command (RunE), called as `sources` with   *)
(* output path "out" and no prefix.  The run state holds the flags, the    *)
(* variables of RunE (version, existing, pkgInfos), the output directory,  *)
(* the lines printed, the error RunE returns, and a log of the GetModule   *)
(* calls made: coordinate, outcome, whether the version was calculated     *)
(* from build flags, and the output file of a fetched module.              *)
(***************************************************************************)
CalledAs == "sources"

Outpath == "out"

Target == "github.com/x/y"

RunManifests ==
    {<<"module a.io/m">>,
     <<"module a.io/m", "require github.com/x/w v1.0.0">>,
     <<"module a.io/n", "require github.com/x/w v1.0.0", "require github.com/x/z v2.0.0">>,
     <<"module a.io/n", "require github.com/x/w v1.0.0",
       "replace github.com/x/w v1.0.0 => github.com/x/z v2.0.0">>}

\* the directories: one per manifest, and one in which go.mod cannot be opened
RunTrees == {Tree(TRUE, t, <<>>) : t \in RunManifests} \cup {NoTree}

NoCommand == Command(FALSE, "")

\* git missing; a tagged commit; commits but no tag
Repos ==
    {Repo(FALSE, NoCommand, NoCommand, NoCommand),
     Repo(TRUE, Command(TRUE, "v0.1.0\n"), Command(TRUE, "0\n"), NoCommand),
     Repo(TRUE, NoCommand, Command(TRUE, "2\n"),
          Command(TRUE, "20240101000000-abcdef012345\n"))}

\* the files: not a Go binary, and four Go binaries
Binaries ==
    {BuildInfo(FALSE, Module("", ""), <<>>, <<>>),
     BuildInfo(TRUE, Module("github.com/x/y", "v1.2.3"), <<>>,
               <<Module("github.com/x/w", "v1.0.0"), Module("github.com/x/z", "v2.0.0")>>),
     BuildInfo(TRUE, Module("github.com/x/y", "(devel)"),
               <<BuildSetting("-compiler", "gc"),
                 BuildSetting("-ldflags", "-X main.version=1.4.0")>>,
               <<Module("github.com/x/w", "v1.0.0")>>),
     BuildInfo(TRUE, Module("github.com/x/y", "(devel)"), <<>>,
               <<Module("github.com/x/w", "(devel)"), Module("github.com/x/z", "v2.0.0")>>),
     BuildInfo(TRUE, Module("a.io/m", ""), <<BuildSetting("-ldflags", "-s -w")>>, <<>>)}

RunDown ==
    {{}, {"github.com/x/y@v1.2.3"}, {"github.com/x/y@v1.4.0"},
     {"github.com/x/w@v1.0.0"}, {"github.com/x/z@v2.0.0"}}

\* what the proxy's list endpoint answers
RunVersions == [k \in {Target} |-> <<"v1.0.0", "v1.2.3">>]

NoCache == [k \in {} |-> NoTree]

RunEnv(down, cache) ==
    [gopath |-> "/go", cache |-> cache, versions |-> RunVersions, down |-> down]

Fetch(coord, ok, calculated, path) ==
    [coord |-> coord, ok |-> ok, calculated |-> calculated, path |-> path]

Called(e) == e.calls # <<>>

\* the GetModule calls of a walk, from its trace
Fetches(trace) ==
    LET called == SelectSeq(trace, Called) IN
    [i \in 1..Len(called) |->
        Fetch(called[i].calls[1], called[i].added # <<>>,
              IF "calculated" \in DOMAIN called[i] THEN called[i].calculated ELSE FALSE,
              IF called[i].added # <<>> THEN called[i].added[1].Path ELSE "")]

Strings(infos) == {InfoString(infos[i]) : i \in 1..Len(infos)}

\* `added, err := writeModuleFrom...(...)`, `if err != nil { return err }`,
\* `pkgInfos = append(pkgInfos, added...)`
Added(r, w) ==
    [r EXCEPT !.existing = w.existing,
              !.disk = w.disk,
              !.fetches = @ \o Fetches(w.trace),
              !.err = w.err,
              !.pkgInfos = IF w.err = "nil" THEN @ \o w.pkgInfos ELSE @]

\* the end of RunE: the report is printed unless an error was returned before
Return(r) ==
    [r EXCEPT !.pc = "done", !.printed = IF r.err = "nil" THEN r.pkgInfos ELSE <<>>]

Invalid(r) ==
    \/ CalledAs \in {"sources", "source"} /\ Outpath = ""
    \/ ~r.module /\ ~r.src /\ ~r.binary
    \/ r.module /\ r.src
    \/ r.module /\ r.binary
    \/ r.src /\ r.binary

Init ==
    /\ \E module \in BOOLEAN, src \in BOOLEAN, binary \in BOOLEAN, find \in BOOLEAN,
          version \in {"", "v1.2.3"}, down \in RunDown :
          run = [pc |-> "running", module |-> module, src |-> src, binary |-> binary,
                 find |-> find, version |-> version, down |-> down, existing |-> {},
                 pkgInfos |-> <<>>, fetches |-> <<>>, disk |-> NoMap, printed |-> <<>>,
                 err |-> "nil", found |-> 0, flag |-> version, roots |-> <<>>]
    /\ parser = ParserIdle
    /\ sum = SumIdle
    /\ walk = WalkIdle
    /\ call = CallIdle

\* `must specify output path`, `must specify exactly one of ...`
RunInvalid ==
    /\ run.pc = "running"
    /\ Invalid(run)
    /\ run' = Return([run EXCEPT !.err = "error"])
    /\ UNCHANGED <<parser, sum, walk, call>>

\* the module cache when it holds the tree t for the target (under the version
\* GetModule settles on), or no directory for it
ModuleCache(t, version) ==
    LET versions == RunVersions[Target]
        v == IF version = "" THEN versions[Len(versions)] ELSE version
    IN IF t.hasMod THEN [k \in {Coordinate(Target, v)} |-> t] ELSE NoCache

\* case module
RunModule ==
    /\ run.pc = "running"
    /\ ~Invalid(run)
    /\ run.module
    /\ \E t \in RunTrees :
       \E env \in {RunEnv(run.down, ModuleCache(t, run.version))} :
       \E g \in {GetModule(Target, run.version, FALSE, env)} :
       \E r \in {[run EXCEPT !.fetches = Append(@, Fetch(Coordinate(Target, run.version),
                                                         g.err = "nil", FALSE, ""))]} :
       \E w \in {writeModuleFromSource(Outpath, "", Target, run.version, g.fsys,
                                       run.existing, env, run.disk)} :
          run' = Return(IF g.err # "nil" THEN [r EXCEPT !.err = g.err] ELSE Added(r, w))
    /\ UNCHANGED <<parser, sum, walk, call>>

\* the version of the source directory: the flag, else GoVersion
SourceVersion(r, repo) == IF r.version = "" THEN GoVersion(repo) ELSE r.version

\* GoVersion is only called when no version is set
ReposFor(r) == IF r.version = "" THEN Repos ELSE {Repo(FALSE, NoCommand, NoCommand, NoCommand)}

\* case src && !find
RunSrc ==
    /\ run.pc = "running"
    /\ ~Invalid(run)
    /\ run.src /\ ~run.find
    /\ \E t \in RunTrees, repo \in ReposFor(run) :
       \E r \in {[run EXCEPT !.version = SourceVersion(run, repo)]} :
       \E w \in {writeModuleFromSource(Outpath, "", "", r.version, t, r.existing,
                                       RunEnv(r.down, NoCache), r.disk)} :
          run' = Return(Added(r, w))
    /\ UNCHANGED <<parser, sum, walk, call>>

\* case binary && !find
RunBinary ==
    /\ run.pc = "running"
    /\ ~Invalid(run)
    /\ run.binary /\ ~run.find
    /\ \E info \in Binaries :
       \E w \in {writeModuleFromBinary(Outpath, "", info, run.existing,
                                       RunEnv(run.down, NoCache), run.disk)} :
          run' = Return(Added(run, w))
    /\ UNCHANGED <<parser, sum, walk, call>>

Finding(r) ==
    /\ r.pc = "running"
    /\ ~Invalid(r)
    /\ ~r.module
    /\ r.find
    /\ r.err = "nil"
    /\ r.found < MaxFound

\* `for _, a := range added { existing[a.String()] = true }`
MarkAdded(r, added) == [r EXCEPT !.existing = @ \cup Strings(added)]

\* the git repositories a directory found under the target may be in; which
\* one matters only when no --version was given
FoundRepos(r) == IF r.flag = "" THEN Repos ELSE {Repo(FALSE, NoCommand, NoCommand, NoCommand)}

\* a module root found: the version GoVersion gives for its own directory, and
\* the version writeModuleFromSource is called with
Root(own, version) == [own |-> own, version |-> version]

\* the WalkDir callback, src && find, on a path ending in go.mod
FindSrc ==
    /\ Finding(run)
    /\ run.src
    /\ \E t \in RunTrees, repo \in FoundRepos(run) :
       \E v \in {SourceVersion(run, repo)} :
       \E r \in {[run EXCEPT !.version = v, !.found = @ + 1,
                              !.roots = Append(@, Root(GoVersion(repo), v))]} :
       \E w \in {writeModuleFromSource(Outpath, "", "", r.version, t, r.existing,
                                       RunEnv(r.down, NoCache), r.disk)} :
       \E a \in {Added(r, w)} :
          run' = IF w.err # "nil" THEN a ELSE MarkAdded(a, w.pkgInfos)
    /\ UNCHANGED <<parser, sum, walk, call>>

\* the WalkDir callback, binary && find, on a regular file: an error of
\* writeModuleFromBinary is dropped (`if err != nil { return nil }`)
FindBinary ==
    /\ Finding(run)
    /\ run.binary
    /\ \E info \in Binaries :
       \E r \in {[run EXCEPT !.found = @ + 1]} :
       \E w \in {writeModuleFromBinary(Outpath, "", info, r.existing,
                                       RunEnv(r.down, NoCache), r.disk)} :
       \E a \in {Added(r, w)} :
          run' = IF w.err # "nil" THEN [a EXCEPT !.err = "nil"]
                 ELSE MarkAdded(a, w.pkgInfos)
    /\ UNCHANGED <<parser, sum, walk, call>>

\* the WalkDir callback called with an error (`failed to walk`), or on a file
\* it cannot stat or open
FindFailed ==
    /\ Finding(run)
    /\ run' = [run EXCEPT !.err = "error", !.found = @ + 1]
    /\ UNCHANGED <<parser, sum, walk, call>>

\* fs.WalkDir returns: with the callback's error, or at the end of the tree
FindReturn ==
    /\ run.pc = "running"
    /\ ~Invalid(run)
    /\ ~run.module
    /\ run.find
    /\ run' = Return(run)
    /\ UNCHANGED <<parser, sum, walk, call>>

Next ==
    \/ RunInvalid
    \/ RunModule
    \/ RunSrc
    \/ RunBinary
    \/ FindSrc
    \/ FindBinary
    \/ FindFailed
    \/ FindReturn

Spec == Init /\ [][Next]_vars

(***************************************************************************)
(* Claims about a run of the command (Spec).                               *)
(***************************************************************************)
\* the i-th GetModule call of the run failed
FetchFailed(i) == ~run.fetches[i].ok

\* the run ended at the i-th GetModule call: RunE returns an error, no call
\* follows, nothing is printed, and the files written for the modules fetched
\* before are in the output directory
RunEndedAt(i) ==
    /\ run.err # "nil"
    /\ i = Len(run.fetches)
    /\ run.printed = <<>>
    /\ \A j \in 1..(i - 1) :
          run.fetches[j].path # "" => run.fetches[j].path \in DOMAIN run.disk

\* C8: in every entry mode, a failed fetch of any coordinate ends the run with
\* an error: no coordinate is fetched after it, no report line is printed, and
\* the output files completed before it stay on disk.
C8_FirstFetchFailureEndsRun ==
    \A i \in 1..Len(run.fetches) : FetchFailed(i) => RunEndedAt(i)

(***************************************************************************)
(* Claims about writeModuleFromSource (SpecWalk).                          *)
(***************************************************************************)
Returned == walk.pc = "returned"

\* the go.mod of the walked tree, as ParseMod returns it
WalkMod == ParseMod(walk.fsys.gomod)

ManifestOk == walk.fsys.hasMod /\ WalkMod.res = "ok"

ManifestHas(line) ==
    walk.fsys.hasMod /\ \E i \in 1..Len(walk.fsys.gomod) : walk.fsys.gomod[i] = line

Iterations == {walk.res.trace[i] : i \in 1..Len(walk.res.trace)}

NoDuplicates(seq) == \A i, j \in 1..Len(seq) : i # j => seq[i] # seq[j]

\* C1: in one walk GetModule is called at most once per coordinate string
\* name@version, whichever way the coordinate is reached (as a requirement or
\* as the target a replace directive substitutes for one).
C1_FetchedAtMostOnce == Returned => NoDuplicates(walk.res.fetched)

\* C2: with `require github.com/x/y <version>` and the bare-name directive
\* `replace github.com/x/y => ./local` in the manifest, the walk makes no
\* GetModule call for github.com/x/y and adds no module github.com/x/y for the
\* requirement.
C2_BareReplaceNotFetched ==
    (Returned /\ ManifestHas("replace github.com/x/y => ./local"))
    => \A it \in Iterations :
          it.req.Name = "github.com/x/y"
          => /\ \A k \in 1..Len(it.calls) :
                   ~HasPrefix(it.calls[k], "github.com/x/y@")
             /\ \A k \in 1..Len(it.added) : it.added[k].Module # "github.com/x/y"

\* C3: a requirement that a replace directive substitutes with a coordinate of
\* empty version causes no GetModule call and adds nothing to the report.
C3_PathReplacementSkipped ==
    Returned
    => \A it \in Iterations :
          (it.replaced /\ it.target.Version = "") => (it.calls = <<>> /\ it.added = <<>>)

C3_Witness ==
    /\ Returned
    /\ walk.res.err = "nil"
    /\ \E it \in Iterations :
          it.replaced /\ it.target = Package("./local", "", FALSE) /\ it.calls = <<>>

\* both a full-coordinate entry and a bare-name entry of the replace map apply to p
BothApply(Replace, p) == String(p) \in DOMAIN Replace /\ p.Name \in DOMAIN Replace

\* C4: when the replace map of the parsed manifest has an entry under the
\* requirement's full coordinate and one under its bare name, a substitution
\* takes the target of the full-coordinate entry.
C4_FullCoordinateWins ==
    (Returned /\ ManifestOk)
    => \A it \in Iterations :
          (it.replaced /\ BothApply(WalkMod.m.Replace, it.req))
          => it.target = WalkMod.m.Replace[String(it.req)]

C4_Witness ==
    /\ Returned
    /\ ManifestOk
    /\ \E it \in Iterations :
          /\ it.replaced
          /\ BothApply(WalkMod.m.Replace, it.req)
          /\ WalkMod.m.Replace[String(it.req)] # WalkMod.m.Replace[it.req.Name]
          /\ it.calls = <<String(WalkMod.m.Replace[String(it.req)])>>

\* the coordinate of the root module of the walk
RootCoordinate ==
    Coordinate(IF walk.name = "" THEN WalkMod.m.Name ELSE walk.name, walk.version)

\* the requirements are pairwise distinct, none is replaced, all can be fetched
PlainRequires ==
    LET reqs == WalkMod.m.Requires IN
    /\ ManifestOk
    /\ NoDuplicates([i \in 1..Len(reqs) |-> String(reqs[i])])
    /\ \A i \in 1..Len(reqs) :
          /\ ~Substitute(WalkMod.m.Replace, reqs[i]).replaced
          /\ String(reqs[i]) \notin walk.down

\* the report is the root followed by one entry per requirement, in manifest order
RootThenRequires ==
    LET reqs == WalkMod.m.Requires IN
    /\ walk.res.err = "nil"
    /\ [i \in 1..Len(walk.res.pkgInfos) |-> InfoString(walk.res.pkgInfos[i])]
       = <<RootCoordinate>> \o [i \in 1..Len(reqs) |-> String(reqs[i])]

\* C6 as stated: for pairwise distinct requirements, none replaced and all
\* fetchable, the walk returns [root, r1, ..., rn].
C6_RootThenRequires == (Returned /\ PlainRequires) => RootThenRequires

\* no requirement is in `existing` when the loop starts: neither from an
\* earlier walk nor as the root's own coordinate
NoneVisited ==
    \A i \in 1..Len(WalkMod.m.Requires) :
        String(WalkMod.m.Requires[i]) \notin walk.existing \cup {RootCoordinate}

\* C6 amended: ... and none of them already in `existing` (which holds the
\* root's own coordinate), the walk returns [root, r1, ..., rn].
C6_RootThenUnvisitedRequires ==
    (Returned /\ PlainRequires /\ NoneVisited) => RootThenRequires

C6_Witness ==
    /\ Returned
    /\ PlainRequires
    /\ NoneVisited
    /\ Len(WalkMod.m.Requires) = 2
    /\ Len(walk.res.pkgInfos) = 3

\* C7: a failed fetch of a requirement ends the walk there with an error and
\* no modules; a root whose go.mod cannot be opened once the root is written
\* is no error and gives the report [root].
C7_FetchFatalMissingManifestNot ==
    Returned
    => /\ \A i \in 1..Len(walk.res.trace) :
             (walk.res.trace[i].calls # <<>> /\ walk.res.trace[i].added = <<>>)
             => /\ i = Len(walk.res.trace)
                /\ walk.res.err # "nil"
                /\ walk.res.pkgInfos = <<>>
       /\ (walk.name # "" /\ ~walk.fsys.hasMod)
          => /\ walk.res.err = "nil"
             /\ Len(walk.res.pkgInfos) = 1
             /\ InfoString(walk.res.pkgInfos[1]) = RootCoordinate

(***************************************************************************)
(* Claims about the parsers.                                               *)
(***************************************************************************)
\* a line of three fields whose second field does not end in go.mod
IsLockPair(line) ==
    /\ Len(Fields(line)) = 3
    /\ LET v == Fields(line)[2] IN
       ~(Len(v) >= 6 /\ SubSeq(v, Len(v) - 5, Len(v)) = "go.mod")

LockEntries(lines) ==
    LET kept == SelectSeq(lines, IsLockPair) IN
    [k \in 1..Len(kept) |-> Package(Fields(kept[k])[1], Fields(kept[k])[2], FALSE)]

\* C5: ParseSum maps each line on its own: after any number of lines read, the
\* entries are, in input order, one (field 1, field 2) per line of exactly three
\* fields whose second field does not end in go.mod, and nothing for any other
\* line; the scan only ever ends by returning the list.
C5_SumLineByLine ==
    /\ sum.pkgs = LockEntries(SubSeq(sum.input, 1, sum.pos - 1))
    /\ sum.res \in {"scanning", "done"}

C5_Witness ==
    /\ sum.res = "done"
    /\ sum.input = <<"github.com/x/y v1.2.3/go.mod h1:abc=", "github.com/x/y v1.2.3 h1:xyz=">>
    /\ sum.pkgs = <<Package("github.com/x/y", "v1.2.3", FALSE)>>

\* the line is a directive `word ...`: not a comment, first token word
IsDirective(line, word) ==
    /\ ~HasPrefix(line, "//")
    /\ Fields(line) # <<>>
    /\ Fields(line)[1] = word

CountDirective(lines, word) ==
    Cardinality({i \in 1..Len(lines) : IsDirective(lines[i], word)})

\* C9: once ParseMod has ended on an input holding two module directives or two
\* go directives, it has returned an error (and so no record).
C9_DuplicateRejected ==
    (/\ parser.st.res # "scanning"
     /\ \/ CountDirective(parser.input, "module") >= 2
        \/ CountDirective(parser.input, "go") >= 2)
    => parser.st.res = "err"

OpenBlocks(st) ==
    Cardinality({b \in {"require", "replace", "retract"} : NestedBlock(st, b)})

\* C10: at every point of the scan at most one of the require, replace and
\* retract blocks is open.
C10_OneBlockOpen == OpenBlocks(parser.st) <= 1

\* a line ParseMod tokenizes (not a comment, not blank) whose first token is none
\* of the five directives: a block-continuation line, an unknown directive, or `)`
Stray(line) ==
    /\ ~HasPrefix(line, "//")
    /\ Fields(line) # <<>>
    /\ Fields(line)[1] \notin {"module", "go", "require", "replace", "retract"}

\* C11: when ParseMod, with no block open, reads a line whose first token is
\* not module, go, require, replace or retract (a block-continuation line, an
\* unrecognized directive, or a closing parenthesis), it returns an error and
\* no record.
C11_StrayLineRejected ==
    [][(/\ parser.st.res = "scanning"
        /\ parser.pos <= Len(parser.input)
        /\ OpenBlocks(parser.st) = 0
        /\ Stray(parser.input[parser.pos]))
       => parser'.st.res = "err"]_vars

C11_Witness ==
    /\ parser.st.res = "err"
    /\ parser.pos = 3
    /\ parser.input \in {<<"module a.io/m", "exclude a.io/x v1">>,
                         <<"module a.io/m", ")">>}

(***************************************************************************)
(* SpecLicenses: WriteToZip and FindLicenses applied to one tree, a        *)
(* directory or an archive, of at most MaxFiles entries.                   *)
(***************************************************************************)
\* the entries a tree is made of, in the order fs.WalkDir visits them
LicenseFiles ==
    <<File(".git/LICENSE", "file", 100, <<"MIT">>),
      File("COPYING", "file", 0, <<>>),
      File("LICENSE", "file", 50, <<"MIT">>),
      File("LICENSE.md", "file", 100, <<"MIT", "Apache-2.0">>),
      File("LICENSE.txt", "symlink", 100, <<"MIT">>),
      File("README.md", "file", 100, <<"MIT">>),
      File("sub/LICENSE", "file", 75, <<"MIT">>),
      File("vendor/a/LICENSE", "file", 100, <<"BSD-3-Clause">>),
      File("zlib/LICENSE-MIT", "file", 100, <<"Zlib">>)>>

LicenseTrees ==
    LET all == {LicenseFiles[k] : k \in 1..Len(LicenseFiles)}
        some == {S \in SUBSET all : Cardinality(S) <= MaxFiles}
        lists == {SelectSeq(LicenseFiles, LAMBDA f : f \in S) : S \in some}
    IN {Tree(FALSE, <<>>, files) : files \in lists}
       \cup {ZipTree(files) : files \in lists}

InitLicenses ==
    /\ call \in [fn : {"WriteToZip"}, fsys : LicenseTrees, pc : {"called"},
                 licenseListers : {<<>>}, licenses : {<<>>}, found : {<<>>}]
    /\ parser = ParserIdle
    /\ sum = SumIdle
    /\ walk = WalkIdle
    /\ run = RunIdle

\* WriteToZip returns; FindLicenses walks the same tree
ZipReturn ==
    /\ call.fn = "WriteToZip"
    /\ call.pc = "called"
    /\ call' = [call EXCEPT !.pc = "returned",
                            !.licenseListers = writeToZip(call.fsys),
                            !.licenses = WriteToZip(call.fsys),
                            !.found = FindLicenses(call.fsys)]
    /\ UNCHANGED <<parser, sum, walk, run>>

NextLicenses == ZipReturn

SpecLicenses == InitLicenses /\ [][NextLicenses]_vars

(***************************************************************************)
(* Claims about the license scanner.                                       *)
(***************************************************************************)
Zipped == call.fn = "WriteToZip" /\ call.pc = "returned"

\* the entry of the tree a reader was opened on
FileOf(r) == CHOOSE f \in {call.fsys.files[k] : k \in 1..Len(call.fsys.files)} : f.path = r.path

LicenseReaders ==
    {call.licenseListers[k] : k \in 1..Len(call.licenseListers)}

\* C12: a file the oracle classifies contributes exactly [UNKNOWN] when its
\* coverage is below 75 and exactly the oracle's matches, in the oracle's
\* order, when its coverage is 75 or more.
C12_UnknownOrMatches ==
    Zipped =>
        \A r \in LicenseReaders :
            r.isLicenseReader =>
                r.licenses = IF FileOf(r).Percent < 75 THEN <<"UNKNOWN">>
                             ELSE FileOf(r).Match

RECURSIVE Flatten(_)
Flatten(seqs) == IF seqs = <<>> THEN <<>> ELSE Head(seqs) \o Flatten(Tail(seqs))

\* the position of a path among the entries of the tree
VisitOf(path) == CHOOSE k \in 1..Len(call.fsys.files) : call.fsys.files[k].path = path

\* C13: the list WriteToZip returns is the concatenation of the per-file
\* results of the files classified, in the order the files are visited, and
\* nothing is de-duplicated: two files matching MIT give two MIT entries.
C13_ConcatenationInVisitOrder ==
    Zipped =>
        /\ call.licenses =
              Flatten([k \in 1..Len(call.licenseListers) |-> call.licenseListers[k].licenses])
        /\ \A i, j \in 1..Len(call.licenseListers) :
              i < j => VisitOf(call.licenseListers[i].path) < VisitOf(call.licenseListers[j].path)

C13_Witness ==
    /\ Zipped
    /\ Len(call.licenseListers) = 2
    /\ \A k \in 1..2 : \E n \in 1..Len(call.licenseListers[k].licenses) :
                            call.licenseListers[k].licenses[n] = "MIT"
    /\ Cardinality({n \in 1..Len(call.licenses) : call.licenses[n] = "MIT"}) = 2

\* C14: of the files writeToZip hands to licenseChecker, those the oracle
\* classifies are exactly the ones whose base name is in FileNames and whose
\* directory has no segment named vendor; every other file is copied as it is
\* and contributes no license.
C14_ClassifiedIffLicenseNameOutsideVendor ==
    Zipped =>
        \A r \in LicenseReaders :
            LET segments == Split(r.path, "/")
                n == Len(segments)
            IN /\ r.isLicenseReader <=>
                     /\ segments[n] \in FileNames
                     /\ \A k \in 1..(n - 1) : segments[k] # "vendor"
               /\ ~r.isLicenseReader => r.licenses = <<>>
               /\ r.isLicenseReader => r.licenses # <<>> \/ FileOf(r).Match = <<>>

C14_Witness ==
    /\ Zipped
    /\ \E r \in LicenseReaders : r.path = "vendor/a/LICENSE" /\ ~r.isLicenseReader
    /\ \E r \in LicenseReaders : r.path = "sub/LICENSE" /\ r.isLicenseReader
    /\ call.licenses = <<"MIT">>

(***************************************************************************)
(* SpecGet: GetModule called once, on a module name with or without a dot, *)
(* with or without a version, under every environment of GetEnvs.          *)
(***************************************************************************)
GetModules == {Target, "fmt"}

CachedTree(name) == Tree(TRUE, <<"module " \o name>>, <<>>)

\* the module cache: empty, holding the coordinate with or without go.mod,
\* holding two versions, holding a module whose name has no dot
GetCaches ==
    {NoCache,
     [k \in {"github.com/x/y@v1.2.3"} |-> CachedTree("a.io/m")],
     [k \in {"github.com/x/y@v1.2.3"} |-> NoTree],
     [k \in {"github.com/x/y@v1.2.3", "github.com/x/y@v1.3.0"} |->
         IF k = "github.com/x/y@v1.2.3" THEN CachedTree("a.io/m") ELSE CachedTree("a.io/n")],
     [k \in {"fmt@v1.2.3"} |-> CachedTree("a.io/m")]}

\* the list endpoint failing, or answering a list of at most MaxVersions
GetLists ==
    {[k \in {} |-> <<>>]}
    \cup {[k \in GetModules |-> l] : l \in SeqsUpTo({"v1.2.3", "v1.3.0"}, MaxVersions)}

GetEnvs ==
    [gopath : {"", "/go"}, cache : GetCaches, versions : GetLists,
     down : {{}, {"github.com/x/y@v1.2.3"}, {"github.com/x/y@v1.3.0"}}]

InitGet ==
    /\ call \in [fn : {"GetModule"}, module : GetModules, version : {"", "v1.2.3"},
                 force : BOOLEAN, env : GetEnvs, pc : {"called"},
                 res : {[err |-> "nil", fsys |-> NoTree, lists |-> 0, zips |-> <<>>]}]
    /\ parser = ParserIdle
    /\ sum = SumIdle
    /\ walk = WalkIdle
    /\ run = RunIdle

GetReturn ==
    /\ call.fn = "GetModule"
    /\ call.pc = "called"
    /\ call' = [call EXCEPT !.pc = "returned",
                            !.res = GetModule(call.module, call.version, call.force, call.env)]
    /\ UNCHANGED <<parser, sum, walk, run>>

NextGet == GetReturn

SpecGet == InitGet /\ [][NextGet]_vars

(***************************************************************************)
(* Claims about GetModule.                                                 *)
(***************************************************************************)
Got == call.fn = "GetModule" /\ call.pc = "returned"

\* whether the list endpoint answered, and the list it answered
Listed == call.module \in DOMAIN call.env.versions

VersionList == call.env.versions[call.module]

\* GetModule has a version: the one given, or the last one listed
Versioned == call.version # "" \/ (Listed /\ VersionList # <<>>)

Version == IF call.version # "" THEN call.version ELSE VersionList[Len(VersionList)]

\* <GOPATH>/pkg/mod/<name>@<version> is a directory holding an openable go.mod
InCache ==
    /\ Versioned
    /\ call.env.gopath # ""
    /\ Coordinate(call.module, Version) \in DOMAIN call.env.cache
    /\ call.env.cache[Coordinate(call.module, Version)].hasMod

\* the call returned the tree of the local cache, with no archive request
FromCache ==
    /\ call.res.err = "nil"
    /\ call.res.fsys = call.env.cache[Coordinate(call.module, Version)]
    /\ call.res.zips = <<>>

C16_LastListedVersion ==
    (Got /\ call.version = "" /\ Contains(call.module, ".")) =>
        /\ call.res.lists = 1
        /\ (Listed /\ VersionList # <<>>) =>
              LET last == Coordinate(call.module, VersionList[Len(VersionList)]) IN
              \/ call.res.zips = <<last>>
              \/ /\ call.res.zips = <<>>
                 /\ last \in DOMAIN call.env.cache
                 /\ call.res.fsys = call.env.cache[last]

\* the cache holds two versions, the list names both, and the last one listed
\* is the one returned from the cache
C16_Witness ==
    /\ Got /\ call.version = ""
    /\ Listed /\ Len(VersionList) = 2
    /\ VersionList[1] # VersionList[2]
    /\ \A k \in 1..2 : Coordinate(call.module, VersionList[k]) \in DOMAIN call.env.cache
    /\ call.res.zips = <<>>
    /\ call.res.err = "nil"

(***************************************************************************)
(* SpecBinary: writeModuleFromBinary called once on the build information  *)
(* of a binary whose dependency list has at most MaxDeps entries, no two   *)
(* of the same path.                                                       *)
(***************************************************************************)
DepModules ==
    {Module(path, version) :
        path \in {"github.com/x/v", "github.com/x/w", "github.com/x/z"},
        version \in {"", "(devel)", "v1.0.0"}}

DepLists ==
    {deps \in SeqsUpTo(DepModules, MaxDeps) :
        \A i, j \in 1..Len(deps) : i # j => deps[i].Path # deps[j].Path}

BinaryInfos ==
    {BuildInfo(TRUE, main, settings, deps) :
        main \in {Module("github.com/x/y", "v1.2.3"), Module("github.com/x/y", "(devel)")},
        settings \in {<<>>, <<BuildSetting("-ldflags", "-s -w")>>,
                      <<BuildSetting("-ldflags", "-X main.version=1.4.0")>>},
        deps \in DepLists}
    \cup {BuildInfo(FALSE, Module("", ""), <<>>, <<>>)}

InitBinary ==
    /\ call \in [fn : {"writeModuleFromBinary"}, info : BinaryInfos,
                 existing : {{}, {"github.com/x/w@v1.0.0"}},
                 down : {{}, {"github.com/x/y@v1.4.0"}, {"github.com/x/w@v1.0.0"},
                         {"github.com/x/z@v1.0.0"}},
                 pc : {"called"}, res : {WalkNone}]
    /\ parser = ParserIdle
    /\ sum = SumIdle
    /\ walk = WalkIdle
    /\ run = RunIdle

BinaryReturn ==
    /\ call.fn = "writeModuleFromBinary"
    /\ call.pc = "called"
    /\ call' = [call EXCEPT !.pc = "returned",
                            !.res = writeModuleFromBinary(Outpath, "", call.info, call.existing,
                                                          Env(call.down), NoMap)]
    /\ UNCHANGED <<parser, sum, walk, run>>

NextBinary == BinaryReturn

SpecBinary == InitBinary /\ [][NextBinary]_vars

(***************************************************************************)
(* Claims about writeModuleFromBinary.                                     *)
(***************************************************************************)
BinaryRead ==
    call.fn = "writeModuleFromBinary" /\ call.pc = "returned" /\ call.info.ok

\* the entries of info.Deps the loop reached before the call returned
DepsReached == Len(call.res.trace) - 1

\* the visited set when the loop reaches entry k of info.Deps
ExistingAt(k) ==
    call.existing \cup
        {InfoString(call.res.trace[i].added[1]) :
            i \in {i \in 1..k : call.res.trace[i].added # <<>>}}

Unversioned(d) == d.Version \in {"", "(devel)"}

\* C17: an entry of the dependency list whose version is empty or (devel) is
\* not fetched, not added to the visited set and not added to the report;
\* every other entry the loop reaches that is not in the visited set is
\* fetched exactly once, and the fetches follow the order of the list.
C17_UnversionedDepsSkipped ==
    BinaryRead =>
        /\ \A k \in 1..DepsReached :
              LET d == call.info.Deps[k]
                  c == Coordinate(d.Path, d.Version)
                  v == call.res.trace[k + 1]
              IN /\ v.m = d
                 /\ Unversioned(d) =>
                       /\ v.calls = <<>> /\ v.added = <<>>
                       /\ \A i \in 1..Len(call.res.fetched) : call.res.fetched[i] # c
                       /\ c \in call.res.existing => c \in call.existing
                       /\ \A i \in 1..Len(call.res.pkgInfos) :
                             ~(call.res.pkgInfos[i].Module = d.Path
                               /\ call.res.pkgInfos[i].Version = d.Version)
                 /\ (~Unversioned(d) /\ c \notin ExistingAt(k)) => v.calls = <<c>>
                 /\ (~Unversioned(d) /\ c \in ExistingAt(k)) => v.calls = <<>>
        /\ call.res.fetched =
              Flatten([k \in 1..Len(call.res.trace) |-> call.res.trace[k].calls])

\* a list of two entries, the first with no version, the second fetched
C17_Witness ==
    /\ BinaryRead
    /\ DepsReached = 2
    /\ Unversioned(call.info.Deps[1])
    /\ call.res.trace[3].calls = <<Coordinate(call.info.Deps[2].Path, "v1.0.0")>>
    /\ Len(call.res.pkgInfos) = 2

(***************************************************************************)
(* SpecFlags: parseVersionFromBuildFlags applied to the build settings of  *)
(* a binary, at most MaxSettings of them.                                  *)
(***************************************************************************)
LdFlags ==
    {"", "-s -w", "-X main.version=1.4.0", "-X main.version=v1.4.0",
     "-X main.tag=2.0.0", "-X main.tag=2.0.0 -X main.version=1.4.0",
     "-X main.gitVersion=a/b/v1.2.3-rc1", "-X main.version=dev",
     "-X mainversion=1.4.0"}

FlagSettings ==
    {BuildSetting("-compiler", "gc")} \cup {BuildSetting("-ldflags", f) : f \in LdFlags}

InitFlags ==
    /\ call \in [fn : {"parseVersionFromBuildFlags"},
                 settings : SeqsUpTo(FlagSettings, MaxSettings),
                 pc : {"called"}, fullVersion : {""}]
    /\ parser = ParserIdle
    /\ sum = SumIdle
    /\ walk = WalkIdle
    /\ run = RunIdle

FlagsReturn ==
    /\ call.fn = "parseVersionFromBuildFlags"
    /\ call.pc = "called"
    /\ call' = [call EXCEPT !.pc = "returned",
                            !.fullVersion = parseVersionFromBuildFlags(call.settings)]
    /\ UNCHANGED <<parser, sum, walk, run>>

NextFlags == FlagsReturn

SpecFlags == InitFlags /\ [][NextFlags]_vars

(***************************************************************************)
(* Claims about parseVersionFromBuildFlags.                                *)
(***************************************************************************)
FlagsParsed == call.fn = "parseVersionFromBuildFlags" /\ call.pc = "returned"

\* the settings with the key -ldflags
LdSettings == SelectSeq(call.settings, LAMBDA s : s.Key = "-ldflags")

\* the `version` capture of the first of the patterns, in their order, that
\* matches each of the flags: none when no pattern matches
Captured ==
    [f \in LdFlags |->
        CASE f = "-X main.version=1.4.0" -> "1.4.0"
          [] f = "-X main.version=v1.4.0" -> "v1.4.0"
          [] f = "-X main.tag=2.0.0" -> "2.0.0"
          [] f = "-X main.tag=2.0.0 -X main.version=1.4.0" -> "1.4.0"
          [] f = "-X main.gitVersion=a/b/v1.2.3-rc1" -> "v1.2.3-rc1"
          [] OTHER -> ""]

\* C18: parseVersionFromBuildFlags returns the empty string when there is no
\* -ldflags setting, when the setting is empty and when no pattern matches
\* it; otherwise it returns the `version` capture of the first pattern, in
\* the fixed order, that matches, with a v put before it unless it starts
\* with one.  The result is empty or starts with v.
C18_VersionFromLdFlags ==
    FlagsParsed =>
        /\ call.fullVersion = "" \/ HasPrefix(call.fullVersion, "v")
        /\ LdSettings = <<>> => call.fullVersion = ""
        /\ LdSettings # <<>> =>
              LET v == Captured[LdSettings[1].Value] IN
              call.fullVersion = IF v = "" \/ HasPrefix(v, "v") THEN v ELSE "v" \o v

\* `main.version=1.4.0` gives v1.4.0, also when a tag comes before it
C18_Witness ==
    /\ FlagsParsed
    /\ Len(call.settings) = 2
    /\ call.settings[2].Value = "-X main.tag=2.0.0 -X main.version=1.4.0"
    /\ call.fullVersion = "v1.4.0"

(***************************************************************************)
(* SpecWrite: getAndWriteModule called once for a coordinate, the output   *)
(* directory empty or already holding a non-empty file.                    *)
(***************************************************************************)
\* the output directory: empty, or holding an archive written earlier
WriteDisks ==
    {NoMap,
     [k \in {"github.com_x_y@v1.2.3.zip"} |-> "github.com/x/y@v1.2.3"],
     [k \in {"p/github.com_x_y@v1.2.3.zip", "github.com_x_w@v1.0.0.zip"} |-> "earlier"]}

InitWrite ==
    /\ call \in [fn : {"getAndWriteModule"}, outpath : {"", Outpath}, prefix : {"", "p"},
                 name : {"github.com/x/y", "github.com/x/w", "fmt"},
                 version : {"", "v1.0.0", "v1.2.3"},
                 down : {{}, {"github.com/x/y@v1.2.3"}, {"github.com/x/w@v1.0.0"}},
                 disk : WriteDisks, pc : {"called"},
                 get : {[err |-> "nil", fsys |-> NoTree, lists |-> 0, zips |-> <<>>]},
                 res : {[err |-> "nil", p |-> NoInfo, disk |-> NoMap]}]
    /\ parser = ParserIdle
    /\ sum = SumIdle
    /\ walk = WalkIdle
    /\ run = RunIdle

\* getAndWriteModule returns: what its call of GetModule did, and its results
WriteReturn ==
    /\ call.fn = "getAndWriteModule"
    /\ call.pc = "called"
    /\ call' = [call EXCEPT
                   !.pc = "returned",
                   !.get = GetModule(call.name, call.version, FALSE, Env(call.down)),
                   !.res = getAndWriteModule(call.outpath, call.prefix, call.name,
                                             call.version, Env(call.down), call.disk)]
    /\ UNCHANGED <<parser, sum, walk, run>>

NextWrite == WriteReturn

SpecWrite == InitWrite /\ [][NextWrite]_vars

(***************************************************************************)
(* Claims about the output files.                                          *)
(***************************************************************************)
Written == call.fn = "getAndWriteModule" /\ call.pc = "returned"

\* the output file of the coordinate, relative to the output path
OutFile ==
    (IF call.prefix # "" THEN call.prefix \o "/" ELSE "")
        \o cleanFilename(call.name, call.version, "zip")

AlreadyWritten == call.outpath # "" /\ OutFile \in DOMAIN call.disk

\* C19: when the output file of a coordinate exists and is not empty,
\* processing the coordinate requests nothing from the proxy, scans no
\* license and leaves the file as it is.
C19_ExistingFileSkipsFetchAndScan ==
    (Written /\ AlreadyWritten) =>
        /\ call.get.zips = <<>>
        /\ call.get.lists = 0
        /\ call.res.p.Licenses = <<>>
        /\ call.res.disk = call.disk

(***************************************************************************)
(* SpecRoundTrip: ParseMod reads a go.mod of at most MaxRoundLines lines   *)
(* of the grammar (module, go, require and replace, on one line or in a    *)
(* block); the record it returns is written back, one directive a line,    *)
(* and ParseMod reads what was written.                                    *)
(***************************************************************************)
RoundLines ==
    {"module a.io/m", "go 1.21",
     "require a.io/x v1", "require a.io/y v2 // indirect", "require \"a.io/q\" v3",
     "require (", "a.io/x v1", "a.io/y v2 // indirect", ")",
     "replace a.io/x => a.io/z v2", "replace a.io/x v1 => ../z",
     "replace (", "a.io/y v2 => a.io/z v2"}

\* `require <name> <version>`, with the comment of an indirect requirement
RequireLine(p) ==
    "require " \o p.Name \o " " \o p.Version \o (IF p.Indirect THEN " // indirect" ELSE "")

\* `replace <old> [<oldver>] => <new> [<newver>]`, <old> and <oldver> being the
\* two sides of the `@` of the key
ReplaceLine(key, new) ==
    LET old == Split(key, "@") IN
    "replace " \o old[1] \o (IF old[2] # "" THEN " " \o old[2] ELSE "")
        \o " => " \o new.Name \o (IF new.Version # "" THEN " " \o new.Version ELSE "")

RECURSIVE ReplaceLines(_, _)
ReplaceLines(replace, keys) ==
    IF keys = {} THEN <<>>
    ELSE LET key == CHOOSE k \in keys : TRUE IN
         <<ReplaceLine(key, replace[key])>> \o ReplaceLines(replace, keys \ {key})

\* the go.mod of a record
Serialize(m) ==
    (IF m.Name # "" THEN <<"module " \o m.Name>> ELSE <<>>)
    \o (IF m.GoVersion # "" THEN <<"go " \o m.GoVersion>> ELSE <<>>)
    \o [k \in 1..Len(m.Requires) |-> RequireLine(m.Requires[k])]
    \o ReplaceLines(m.Replace, DOMAIN m.Replace)

InitRoundTrip ==
    /\ call \in [fn : {"ParseMod"}, input : SeqsUpTo(RoundLines, MaxRoundLines),
                 pc : {"called"}, first : {ParseStart}, written : {<<>>},
                 second : {ParseStart}]
    /\ parser = ParserIdle
    /\ sum = SumIdle
    /\ walk = WalkIdle
    /\ run = RunIdle

\* ParseMod returns for the input
RoundParse ==
    /\ call.fn = "ParseMod"
    /\ call.pc = "called"
    /\ call' = [call EXCEPT !.pc = "parsed", !.first = ParseMod(call.input)]
    /\ UNCHANGED <<parser, sum, walk, run>>

\* the record returned is written back and ParseMod returns for what was written
RoundAgain ==
    /\ call.fn = "ParseMod"
    /\ call.pc = "parsed"
    /\ call.first.res = "ok"
    /\ call' = [call EXCEPT !.pc = "reparsed",
                            !.written = Serialize(call.first.m),
                            !.second = ParseMod(Serialize(call.first.m))]
    /\ UNCHANGED <<parser, sum, walk, run>>

NextRoundTrip == RoundParse \/ RoundAgain

SpecRoundTrip == InitRoundTrip /\ [][NextRoundTrip]_vars

(***************************************************************************)
(* Claims about the round trip.                                            *)
(***************************************************************************)
Reparsed == call.fn = "ParseMod" /\ call.pc = "reparsed"

\* the input leaves no block open
BlocksClosed == OpenBlocks(call.first) = 0

\* the go.mod of a record with `require <name> <version>` and nothing more for
\* each requirement
SerializeBare(m) ==
    (IF m.Name # "" THEN <<"module " \o m.Name>> ELSE <<>>)
    \o (IF m.GoVersion # "" THEN <<"go " \o m.GoVersion>> ELSE <<>>)
    \o [k \in 1..Len(m.Requires) |->
           "require " \o m.Requires[k].Name \o " " \o m.Requires[k].Version]
    \o ReplaceLines(m.Replace, DOMAIN m.Replace)

\* C20 as stated: writing the record back with one `require <name> <version>`
\* per requirement and one replace line per replace entry, and parsing what
\* was written, gives an equal record.
C20_RoundTripBareRequire ==
    (Reparsed /\ BlocksClosed) =>
        /\ ParseMod(SerializeBare(call.first.m)).res = "ok"
        /\ ParseMod(SerializeBare(call.first.m)).m = call.first.m

\* C20, amended: for the record ParseMod returns for a well-formed go.mod, writing the
\* record back in the grammar of go.mod (one `require <name> <version>` per
\* requirement, followed by `// indirect` when the requirement is indirect,
\* and one replace line per replace entry) and parsing what was written gives
\* an equal record, replace keys included.
C20_RoundTrip ==
    (Reparsed /\ BlocksClosed) =>
        /\ call.second.res = "ok"
        /\ call.second.m = call.first.m

\* an indirect requirement and a replace entry, both read again as they were
C20_Witness ==
    /\ Reparsed
    /\ call.input = <<"module a.io/m", "require a.io/y v2 // indirect",
                      "replace a.io/x v1 => ../z">>
    /\ call.second.m.Requires = <<Package("a.io/y", "v2", TRUE)>>
    /\ DOMAIN call.second.m.Replace = {"a.io/x@v1"}
    /\ call.second.m = call.first.m

(***************************************************************************)
(* More claims about ParseMod, GetModule and FindLicenses.                 *)
(***************************************************************************)
\* C25: ParseMod ends every input with a record or with an error and never
\* crashes; a module line or a go line with no second token is an error.
C25_NeverCrashes == parser.st.res \in {"scanning", "ok", "err"}

\* C26: ParseMod returns a record only when no block is open at the end of
\* the input; an input ending inside a block is rejected with an error.
C26_UnclosedBlockRejected == parser.st.res = "ok" => OpenBlocks(parser.st) = 0

\* C27: called with an empty version, GetModule returns an error, without
\* crashing, when the list endpoint answers an empty list of versions.
C27_EmptyListIsAnError ==
    (Got /\ call.version = "" /\ Contains(call.module, ".")
         /\ Listed /\ VersionList = <<>>)
    => call.res.err = "error"

\* the files FindLicenses classifies when each file is judged by its own path
OwnPathLicenses ==
    Flatten([k \in 1..Len(call.fsys.files) |->
        LET f == call.fsys.files[k]
            segments == Split(f.path, "/")
            n == Len(segments)
        IN IF /\ segments[n] \in FileNames
              /\ \A i \in 1..(n - 1) : segments[i] # "vendor"
              /\ f.kind # "dir"
           THEN Close(f) ELSE <<>>])

\* C24: FindLicenses classifies a license-named file with no vendor segment
\* in its path whatever was visited before it: a license file under a vendor
\* directory takes away no result of a file visited later.
C24_EachFileByItsOwnPath == Zipped => call.found = OwnPathLicenses

(***************************************************************************)
(* Claims about a missing go.mod.                                          *)
(***************************************************************************)
\* the name has to be read from go.mod and go.mod is missing: an error, no
\* module, nothing fetched and no file written
FatalAtRoot ==
    /\ walk.res.err = "ErrNoModFile"
    /\ walk.res.pkgInfos = <<>>
    /\ walk.res.fetched = <<>>
    /\ walk.res.disk = NoMap

\* the name is given and go.mod is missing: no error, and the root alone
ToleratedWhenNamed ==
    /\ walk.res.err = "nil"
    /\ Len(walk.res.pkgInfos) = 1
    /\ walk.res.pkgInfos[1].Module = walk.name
    /\ walk.res.fetched = <<>>

\* C21: a missing go.mod is fatal when the name of the root must be read from
\* it (writeModule returns ErrNoModFile, nothing is written or fetched, the
\* walk returns an error) and tolerated when the name is given, the walk
\* then giving the root alone.
C21_MissingManifestFatalOnlyUnnamed ==
    (Returned /\ ~walk.fsys.hasMod) =>
        IF walk.name = "" THEN FatalAtRoot ELSE ToleratedWhenNamed

(***************************************************************************)
(* Claims about the main module of a binary.                               *)
(***************************************************************************)
\* the binary records no version for its main module and its build settings
\* name none
NoMainVersion ==
    /\ Unversioned(call.info.Main)
    /\ \A k \in 1..Len(call.info.Settings) :
          ~Contains(call.info.Settings[k].Value, "ersion=")

\* the entry of info.Deps whose fetch failed, if the call returned its error
FailedDep ==
    LET last == call.res.trace[Len(call.res.trace)] IN
    /\ DepsReached >= 1
    /\ last.calls # <<>>
    /\ last.added = <<>>

\* C22: when the main module has no recorded version (empty or (devel)) and
\* none can be derived from the build settings, writeModuleFromBinary does
\* not fail for it: the main module is neither fetched nor reported, and the
\* dependency list is processed all the same.
C22_UnversionedMainOmitted ==
    (BinaryRead /\ NoMainVersion) =>
        /\ call.res.trace[1].calls = <<>>
        /\ call.res.trace[1].added = <<>>
        /\ \A i \in 1..Len(call.res.pkgInfos) :
              call.res.pkgInfos[i].Module # call.info.Main.Path
        /\ \A i \in 1..Len(call.res.fetched) :
              ~HasPrefix(call.res.fetched[i], call.info.Main.Path \o "@")
        /\ call.res.err # "nil" => FailedDep
        /\ call.res.err = "nil" => DepsReached = Len(call.info.Deps)

\* a (devel) main module with no version in the flags, and two dependencies
\* fetched and reported after it
C22_Witness ==
    /\ BinaryRead
    /\ call.info.Main.Version = "(devel)"
    /\ call.info.Settings = <<BuildSetting("-ldflags", "-s -w")>>
    /\ call.res.err = "nil"
    /\ Len(call.res.fetched) = 2
    /\ Len(call.res.pkgInfos) = 2

(***************************************************************************)
(* SpecZip: WriteToZip step by step on one tree.  writeToZip visits the    *)
(* entries in order; for an entry it copies it appends the reader of       *)
(* licenseChecker to licenseListers and defers its Close, then copies the  *)
(* file through the reader.  In a directory tree the deferred Close runs   *)
(* when the WalkDir callback of the entry returns, in an archive when      *)
(* writeToZip itself returns, last reader first.  WriteToZip then collects *)
(* the licenses of the readers.  pc is where the call stands: "walking"    *)
(* (before the entry at pos), "copying", "leaving" (the callback about to  *)
(* return), "unwinding" (writeToZip about to return), "collecting" or      *)
(* "returned".                                                             *)
(***************************************************************************)
\* the reader of licenseChecker, appended and its Close deferred
Opened(f) ==
    [path |-> f.path, isLicenseReader |-> licenseChecker(f.path), copied |-> FALSE,
     closes |-> 0, licenses |-> <<>>]

\* a deferred reader.Close() running: the Close of a licenseReader classifies
\* what was copied through it
DeferredClose(r, f) ==
    IF r.isLicenseReader
    THEN [r EXCEPT !.closes = @ + 1, !.licenses = @ \o Close(f)]
    ELSE r

\* where writeToZip stands after the last entry, were its deferred calls dropped
AfterWalkNoDefer(fsys) == "collecting"

\* where writeToZip stands after the last entry: an archive has Closes deferred
AfterWalk(fsys) == IF fsys.zip THEN "unwinding" ELSE "collecting"

\* the readers whose deferred Close has not run yet
Deferred(listers) == {k \in 1..Len(listers) : listers[k].isLicenseReader /\ listers[k].closes = 0}

\* the entry of the tree at path
EntryAt(fsys, path) ==
    CHOOSE f \in {fsys.files[k] : k \in 1..Len(fsys.files)} : f.path = path

InitZip ==
    /\ call \in [fn : {"writeToZip"}, fsys : LicenseTrees, pos : {1}, pc : {"walking"},
                 licenseListers : {<<>>}, licenses : {<<>>}]
    /\ parser = ParserIdle
    /\ sum = SumIdle
    /\ walk = WalkIdle
    /\ run = RunIdle

\* the next entry: skipped, or opened and its reader appended
ZipOpen ==
    /\ call.fn = "writeToZip"
    /\ call.pc = "walking"
    /\ call.pos <= Len(call.fsys.files)
    /\ \E f \in {call.fsys.files[call.pos]} :
          call' = IF Copied(call.fsys, f)
                  THEN [call EXCEPT !.pc = "copying",
                                    !.licenseListers = Append(@, Opened(f))]
                  ELSE [call EXCEPT !.pos = @ + 1]
    /\ UNCHANGED <<parser, sum, walk, run>>

\* io.Copy(w, reader)
ZipCopy ==
    /\ call.fn = "writeToZip"
    /\ call.pc = "copying"
    /\ call' = [call EXCEPT
                   !.licenseListers[Len(call.licenseListers)].copied = TRUE,
                   !.pc = IF call.fsys.zip THEN "walking" ELSE "leaving",
                   !.pos = IF call.fsys.zip THEN @ + 1 ELSE @]
    /\ UNCHANGED <<parser, sum, walk, run>>

\* the callback of WalkDir returns: the Close it deferred runs
ZipLeave ==
    /\ call.fn = "writeToZip"
    /\ call.pc = "leaving"
    /\ call' = [call EXCEPT
                   !.licenseListers[Len(call.licenseListers)] =
                       DeferredClose(@, call.fsys.files[call.pos]),
                   !.pc = "walking",
                   !.pos = @ + 1]
    /\ UNCHANGED <<parser, sum, walk, run>>

\* past the last entry
ZipEndWalk ==
    /\ call.fn = "writeToZip"
    /\ call.pc = "walking"
    /\ call.pos > Len(call.fsys.files)
    /\ call' = [call EXCEPT !.pc = AfterWalk(call.fsys)]
    /\ UNCHANGED <<parser, sum, walk, run>>

\* writeToZip returns: one deferred Close runs, the last deferred first
ZipUnwind ==
    /\ call.fn = "writeToZip"
    /\ call.pc = "unwinding"
    /\ Deferred(call.licenseListers) # {}
    /\ \E k \in Deferred(call.licenseListers) :
          /\ \A j \in Deferred(call.licenseListers) : j <= k
          /\ call' = [call EXCEPT
                         !.licenseListers[k] =
                             DeferredClose(@, EntryAt(call.fsys, @.path))]
    /\ UNCHANGED <<parser, sum, walk, run>>

\* no deferred Close is left: writeToZip has returned to WriteToZip
ZipUnwound ==
    /\ call.fn = "writeToZip"
    /\ call.pc = "unwinding"
    /\ Deferred(call.licenseListers) = {}
    /\ call' = [call EXCEPT !.pc = "collecting"]
    /\ UNCHANGED <<parser, sum, walk, run>>

\* the loop of WriteToZip over licenseListers, and its return
ZipCollect ==
    /\ call.fn = "writeToZip"
    /\ call.pc = "collecting"
    /\ call' = [call EXCEPT !.pc = "returned", !.licenses = Licenses(call.licenseListers)]
    /\ UNCHANGED <<parser, sum, walk, run>>

NextZip ==
    ZipOpen \/ ZipCopy \/ ZipLeave \/ ZipEndWalk \/ ZipUnwind \/ ZipUnwound \/ ZipCollect

SpecZip == InitZip /\ [][NextZip]_vars

(***************************************************************************)
(* Claims about the steps of WriteToZip.                                   *)
(***************************************************************************)
Stepping == call.fn = "writeToZip"

\* the license files the walk has copied so far
Candidates ==
    {k \in 1..Len(call.licenseListers) : call.licenseListers[k].isLicenseReader}

\* C23: for every license file WriteToZip handles, Close runs exactly once,
\* not before the file is copied and before WriteToZip collects the results,
\* which therefore hold the result of every such file.
C23_ClosedOnceBeforeCollect ==
    Stepping =>
        /\ \A k \in Candidates :
              LET r == call.licenseListers[k] IN
              /\ r.closes <= 1
              /\ r.closes = 1 => r.copied
              /\ call.pc \in {"collecting", "returned"} =>
                    /\ r.closes = 1
                    /\ r.licenses = Close(EntryAt(call.fsys, r.path))
        /\ call.pc = "returned" =>
              /\ call.licenses =
                    Flatten([k \in 1..Len(call.licenseListers) |->
                                call.licenseListers[k].licenses])
              /\ call.licenses = WriteToZip(call.fsys)

\* an archive of two license files, both closed once writeToZip returned
C23_Witness ==
    /\ Stepping
    /\ call.fsys.zip
    /\ call.pc = "returned"
    /\ Cardinality(Candidates) = 2
    /\ \A k \in Candidates : call.licenseListers[k].closes = 1
    /\ Len(call.licenses) >= 2

(***************************************************************************)
(* SpecNames: getAndWriteModule called for one coordinate and then for a   *)
(* second one, into the same output directory, empty at first.             *)
(***************************************************************************)
NamedCoordinates ==
    [name : {"github.com/x/y", "github.com/x_y", "github.com/x/w", "a.io/m"},
     version : {"v1.0.0", "v1.2.3"}]

InitNames ==
    /\ call \in [fn : {"getWriter"}, first : NamedCoordinates, second : NamedCoordinates,
                 pc : {"called"}, disk : {NoMap}, paths : {<<>>}]
    /\ parser = ParserIdle
    /\ sum = SumIdle
    /\ walk = WalkIdle
    /\ run = RunIdle

\* the archive of the first coordinate is fetched and written
NamesFirst ==
    /\ call.fn = "getWriter"
    /\ call.pc = "called"
    /\ \E g \in {getAndWriteModule(Outpath, "", call.first.name, call.first.version,
                                   Env({}), call.disk)} :
          call' = [call EXCEPT !.pc = "first", !.disk = g.disk,
                               !.paths = Append(@, g.p.Path)]
    /\ UNCHANGED <<parser, sum, walk, run>>

\* then that of the second coordinate
NamesSecond ==
    /\ call.fn = "getWriter"
    /\ call.pc = "first"
    /\ \E g \in {getAndWriteModule(Outpath, "", call.second.name, call.second.version,
                                   Env({}), call.disk)} :
          call' = [call EXCEPT !.pc = "second", !.disk = g.disk,
                               !.paths = Append(@, g.p.Path)]
    /\ UNCHANGED <<parser, sum, walk, run>>

NextNames == NamesFirst \/ NamesSecond

SpecNames == InitNames /\ [][NextNames]_vars

(***************************************************************************)
(* Claims about the names of the output files.                             *)
(***************************************************************************)
\* C28: two different coordinates never have the same output file, so the
\* archive of the second is written, not skipped for the file of the first.
C28_FilenamesInjective ==
    (call.fn = "getWriter" /\ call.pc = "second" /\ call.first # call.second) =>
        /\ call.paths[1] # call.paths[2]
        /\ call.paths[2] \in DOMAIN call.disk
        /\ call.disk[call.paths[2]] = Coordinate(call.second.name, call.second.version)

(***************************************************************************)
(* Claims about the report of a run.                                       *)
(***************************************************************************)
\* C29: whatever walks a run has made over its visited set, every module of
\* the accumulated report has its coordinate name@version in `existing`, the
\* coordinate being the one fetched: the target of the replace directive
\* when one applied.
C29_ReportedAreVisited ==
    run.pc # "idle" =>
        /\ \A i \in 1..Len(run.pkgInfos) : InfoString(run.pkgInfos[i]) \in run.existing
        /\ \A i \in 1..Len(run.fetches) :
              run.fetches[i].ok => run.fetches[i].coord \in run.existing

\* two walks of a run with --find, the second reporting the target of a
\* replace directive
C29_Witness ==
    /\ run.pc = "done"
    /\ run.src /\ run.find
    /\ run.found = 2
    /\ run.err = "nil"
    /\ Len(run.pkgInfos) = 4
    /\ InfoString(run.pkgInfos[4]) = "github.com/x/z@v2.0.0"
    /\ "github.com/x/w@v1.0.0" \in run.existing

\* C30: with --src and --find and no --version, each module root found is
\* walked and reported with the version GoVersion gives for its own
\* directory; the version of one root is not used for a root found later.
C30_OwnVersionPerRoot ==
    (run.pc # "idle" /\ run.src /\ run.find /\ run.flag = "") =>
        \A i \in 1..Len(run.roots) : run.roots[i].version = run.roots[i].own

====
